---------------------------- MODULE Spec2Model ----------------------------
(***************************************************************************)
(* TI-30XS calculator (script.js): the calculator state, the entry         *)
(* handlers and the expression pipeline                                    *)
(*   entryLine -> parseExpression -> evaluateExpression -> formatNumber.   *)
(*                                                                         *)
(* Text is a sequence of one-character strings.  The display glyphs that   *)
(* are not ASCII are written by their code point: "U+00D7" is the          *)
(* multiplication sign, "U+00F7" the division sign, "U+2212" the minus     *)
(* sign, "U+03C0" pi, "U+221A" the radical and "U+00B2"/"U+00B3" the       *)
(* superscripts two and three.                                             *)
(*                                                                         *)
(* A JavaScript number is the record [k, n, d, tag]:                       *)
(*   k = "fin"   the rational n/d in lowest terms, d > 0 (negative zero is *)
(*               n = 0, d = -1), times pi when tag = "pi";                 *)
(*   k = "inf"   n = 1 is Infinity and n = -1 is -Infinity;                *)
(*   k = "nan"   NaN;                                                      *)
(*   k = "real"  a finite number the model does not compute digit by       *)
(*               digit: tag names the operation that produced it ("big":   *)
(*               arithmetic beyond the exact range) and n is its sign, 0   *)
(*               when the sign is not known.                               *)
(* The other results of evaluating program text are k = "undefined",       *)
(* k = "regex" (a regular expression object) and k = "str" (a string, n/d  *)
(* the number its text starts with, d = 0 when it starts with none).       *)
(* Arithmetic on "fin" is exact: the rounding of IEEE doubles is not       *)
(* modelled.                                                               *)
(***************************************************************************)
EXTENDS Integers, Sequences, FiniteSets, TLC

-----------------------------------------------------------------------------
(* Numbers *)

IntLimit == 46340 * 46340

Abs(x) == IF x < 0 THEN -x ELSE x

Sgn(x) == IF x < 0 THEN -1 ELSE IF x > 0 THEN 1 ELSE 0

RECURSIVE Gcd(_, _)
Gcd(a, b) == IF b = 0 THEN a ELSE Gcd(b, a % b)

Val(k, n, d, tag) == [k |-> k, n |-> n, d |-> d, tag |-> tag]

Zero == Val("fin", 0, 1, "")
NegZero == Val("fin", 0, -1, "")
NaN == Val("nan", 0, 0, "")
Infinity == Val("inf", 1, 0, "")
NegInfinity == Val("inf", -1, 0, "")
Undefined == Val("undefined", 0, 0, "")
RegExpObject == Val("regex", 0, 0, "")
Big(sign) == Val("real", sign, 0, "big")
Whole(n) == Val("fin", n, 1, "")

\* the rational n/d (d # 0) in lowest terms, times pi when tag = "pi"
Frac(n, d, tag) ==
  IF n = 0 THEN Zero
  ELSE LET g == Gcd(Abs(n), Abs(d))
           s == IF d < 0 THEN -1 ELSE 1
       IN Val("fin", s * (n \div g), s * (d \div g), tag)

Real(sign, tag) == Val("real", sign, 0, tag)

IsNum(v) == v.k \in {"fin", "inf", "nan", "real"}
IsZero(v) == v.k = "fin" /\ v.n = 0
\* the sign of a number, the sign bit for the zeros; 0 for NaN
SignOf(v) ==
  IF v.k = "fin" THEN (IF v.n = 0 THEN v.d ELSE Sgn(v.n))
  ELSE IF v.k \in {"inf", "real"} THEN Sgn(v.n) ELSE 0

MulOK(a, b) == a = 0 \/ b = 0 \/ Abs(a) <= IntLimit \div Abs(b)

\* ToNumber of a value of any kind (a regular expression or a string that is
\* no numeral converts to NaN, undefined converts to NaN)
ToNumber(v) == IF IsNum(v) THEN v ELSE NaN

Neg(v) ==
  IF v.k = "fin"
    THEN (IF v.n = 0 THEN Val("fin", 0, -v.d, "") ELSE Val("fin", -v.n, v.d, v.tag))
  ELSE IF v.k = "inf" THEN Val("inf", -v.n, 0, "")
  ELSE IF v.k = "real" THEN Real(-Sgn(v.n), v.tag)
  ELSE NaN

\* the tag of a finite result computed from a and b, "big" when it is out of
\* the exact range
RealTag(a, b) ==
  IF a.k = "real" THEN a.tag ELSE IF b.k = "real" THEN b.tag ELSE "big"

\* a * b on numbers
Mul(a, b) ==
  IF a.k = "nan" \/ b.k = "nan" THEN NaN
  ELSE IF a.k = "inf" \/ b.k = "inf"
    THEN (IF IsZero(a) \/ IsZero(b) THEN NaN ELSE Val("inf", SignOf(a) * SignOf(b), 0, ""))
  ELSE IF IsZero(a) \/ IsZero(b)
    THEN (IF SignOf(a) * SignOf(b) < 0 THEN NegZero ELSE Zero)
  ELSE IF a.k = "real" \/ b.k = "real" \/ (a.tag = "pi" /\ b.tag = "pi")
    THEN Real(SignOf(a) * SignOf(b), RealTag(a, b))
  ELSE IF MulOK(a.n, b.n) /\ MulOK(a.d, b.d)
    THEN Frac(a.n * b.n, a.d * b.d, IF a.tag = "pi" THEN a.tag ELSE b.tag)
  ELSE Real(SignOf(a) * SignOf(b), "big")

\* a / b on numbers
Div(a, b) ==
  IF a.k = "nan" \/ b.k = "nan" THEN NaN
  ELSE IF b.k = "inf"
    THEN (IF a.k = "inf" THEN NaN
          ELSE IF SignOf(a) * SignOf(b) < 0 THEN NegZero ELSE Zero)
  ELSE IF a.k = "inf" THEN Val("inf", SignOf(a) * SignOf(b), 0, "")
  ELSE IF IsZero(b)
    THEN (IF IsZero(a) THEN NaN ELSE Val("inf", SignOf(a) * SignOf(b), 0, ""))
  ELSE IF IsZero(a) THEN (IF SignOf(a) * SignOf(b) < 0 THEN NegZero ELSE Zero)
  ELSE IF a.k = "real" \/ b.k = "real" \/ (a.tag = "" /\ b.tag = "pi")
    THEN Real(SignOf(a) * SignOf(b), RealTag(a, b))
  ELSE IF MulOK(a.n, b.d) /\ MulOK(a.d, b.n)
    THEN Frac(a.n * b.d, a.d * b.n, IF b.tag = "pi" THEN "" ELSE a.tag)
  ELSE Real(SignOf(a) * SignOf(b), "big")

\* a + b on numbers
Add(a, b) ==
  IF a.k = "nan" \/ b.k = "nan" THEN NaN
  ELSE IF a.k = "inf" THEN (IF b.k = "inf" /\ b.n # a.n THEN NaN ELSE a)
  ELSE IF b.k = "inf" THEN b
  ELSE IF IsZero(a) /\ IsZero(b) THEN (IF a.d = -1 /\ b.d = -1 THEN NegZero ELSE Zero)
  ELSE IF IsZero(a) THEN b
  ELSE IF IsZero(b) THEN a
  ELSE IF a.k = "real" \/ b.k = "real" \/ a.tag # b.tag
    THEN Real(IF SignOf(a) = SignOf(b) THEN SignOf(a) ELSE 0, RealTag(a, b))
  ELSE IF MulOK(a.n, b.d) /\ MulOK(b.n, a.d) /\ MulOK(a.d, b.d)
          /\ Abs(a.n * b.d) <= IntLimit \div 2 /\ Abs(b.n * a.d) <= IntLimit \div 2
    THEN Frac(a.n * b.d + b.n * a.d, a.d * b.d, a.tag)
  ELSE Real(IF SignOf(a) = SignOf(b) THEN SignOf(a) ELSE 0, "big")

Sub(a, b) == Add(a, Neg(b))

IsInteger(v) == v.k = "fin" /\ Abs(v.d) = 1 /\ v.tag = ""
IsOddInteger(v) == IsInteger(v) /\ v.n % 2 = 1

\* comparisons of a number with an integer c: a < c and a > c (false for NaN)
Less(a, c) ==
  IF a.k = "fin" THEN a.n < c * Abs(a.d)
  ELSE IF a.k \in {"inf", "real"} THEN a.n < 0
  ELSE FALSE
Greater(a, c) ==
  IF a.k = "fin" THEN a.n > c * Abs(a.d)
  ELSE IF a.k \in {"inf", "real"} THEN a.n > 0
  ELSE FALSE

\* |a| > 1, |a| < 1 for a finite number
MagnitudeAboveOne(a) == Greater(a, 1) \/ Less(a, -1)

\* the number of binary digits of a natural number n >= 1
RECURSIVE BitLength(_)
BitLength(n) == IF n < 2 THEN 1 ELSE 1 + BitLength(n \div 2)

\* base^e from the square sq of base^(e \div 2), and from h = base^(e \div 2)
PowNatSquared(base, e, sq) == IF e % 2 = 0 THEN sq ELSE Mul(sq, base)
PowNatFrom(base, e, h) == PowNatSquared(base, e, Mul(h, h))

\* base^e for a finite non-zero base and an integer e >= 1
RECURSIVE PowNat(_, _)
PowNat(base, e) ==
  IF e = 1 THEN base
  ELSE PowNatFrom(base, e, PowNat(base, e \div 2))

\* What m^e is as a double, for integers m >= 2 and e > 30: "finite" or "inf"
\* (above 2^1024, for m = 10 from 1e309 on).  2^(L-1) <= m < 2^L bounds m^e
\* between 2^((L-1)e) and 2^(Le); between the two bounds the model does not
\* decide ("?").
Magnitude(m, e) ==
  LET L == BitLength(m)
  IN IF m = 10 THEN (IF e <= 308 THEN "finite" ELSE "inf")
     ELSE IF e > 1100 THEN "inf"
     ELSE IF L * e <= 1024 THEN "finite"
     ELSE IF (L - 1) * e >= 1024 THEN "inf"
     ELSE "?"

\* What 1/(m^e) is as a double, for integers m >= 2 and e > 30: "finite" or
\* "zero" (below 2^-1075, for m = 10 from 1e-324 on)
Smallness(m, e) ==
  LET L == BitLength(m)
  IN IF m = 10 THEN (IF e <= 323 THEN "finite" ELSE "zero")
     ELSE IF e > 1100 THEN "zero"
     ELSE IF L * e <= 1074 THEN "finite"
     ELSE IF (L - 1) * e >= 1075 THEN "zero"
     ELSE "?"

\* a^b is a finite non-zero double for the positive rational a and the
\* rational b: a is between 2^-L and 2^L and |b| is below B, and L * B is at
\* most 1022 (for a = 10, B at most 308)
PowerInRange(a, b) ==
  /\ a.k = "fin" /\ a.tag = "" /\ b.k = "fin" /\ b.tag = ""
  /\ LET B == Abs(b.n) \div Abs(b.d) + 1
         L == BitLength(IF Abs(a.n) > Abs(a.d) THEN Abs(a.n) ELSE Abs(a.d))
     IN IF a = Whole(10) THEN B <= 308 ELSE L * B <= 1022

\* a^b for integer b, e = |b|, with the sign of the power and the class of its
\* magnitude
PowClassed(a, b, e, sign, class) ==
  IF class = "one" THEN Whole(sign)
  ELSE IF e <= 30 THEN (IF b.n > 0 THEN PowNat(a, e) ELSE Div(Whole(1), PowNat(a, e)))
  ELSE IF class = "inf" THEN Val("inf", sign, 0, "")
  ELSE IF class = "zero" THEN (IF sign < 0 THEN NegZero ELSE Zero)
  ELSE IF class = "finite" THEN Real(sign, "big")
  ELSE Real(sign, "?")

PowSized(a, b, e, top, bot) ==
  PowClassed(a, b, e, IF a.n < 0 /\ e % 2 = 1 THEN -1 ELSE 1,
             IF top = bot THEN "one"
             ELSE IF bot = 1 THEN Magnitude(top, e)
             ELSE IF top = 1 THEN Smallness(bot, e)
             ELSE "?")

\* Math.pow(a, b) and a ** b on numbers
Pow(a, b) ==
  IF b.k = "nan" THEN NaN
  ELSE IF IsZero(b) THEN Whole(1)
  ELSE IF a.k = "nan" THEN NaN
  ELSE IF b.k = "inf"
    THEN (IF a.k = "fin" /\ Abs(a.n) = Abs(a.d) /\ a.tag = "" THEN NaN
          ELSE IF (MagnitudeAboveOne(a)) = (b.n > 0) THEN Infinity ELSE Zero)
  ELSE IF a.k = "inf" \/ IsZero(a)
    THEN LET neg == SignOf(a) < 0 /\ IsOddInteger(b)
             large == (a.k = "inf") = (SignOf(b) > 0)
         IN IF large THEN Val("inf", IF neg THEN -1 ELSE 1, 0, "")
            ELSE IF neg THEN NegZero ELSE Zero
  ELSE IF a.k = "fin" /\ a.n = a.d /\ a.tag = "" THEN Whole(1)
  ELSE IF ~IsInteger(b)
    THEN (IF SignOf(a) < 0 THEN NaN
          ELSE IF PowerInRange(a, b) THEN Real(1, "pow") ELSE Real(1, "?"))
  ELSE IF a.k = "real" \/ a.tag = "pi" THEN Real(IF b.n % 2 = 0 THEN 1 ELSE SignOf(a), "?")
  ELSE PowSized(a, b, Abs(b.n), IF b.n > 0 THEN Abs(a.n) ELSE Abs(a.d),
                IF b.n > 0 THEN Abs(a.d) ELSE Abs(a.n))

-----------------------------------------------------------------------------
(* The Math library and the global conversion functions, on numbers.  The  *)
(* values of the transcendental functions are exact where they are         *)
(* rational (sin of a multiple of pi/6, log10 of a power of ten, ...) and  *)
(* "real" elsewhere.                                                       *)

PI == Val("fin", 1, 1, "pi")

\* the integer square root of n >= 0 by bisection: lo*lo <= n < hi*hi
RECURSIVE ISqrt(_, _, _)
ISqrt(n, lo, hi) ==
  IF hi - lo <= 1 THEN lo
  ELSE LET mid == (lo + hi) \div 2
       IN IF mid * mid <= n THEN ISqrt(n, mid, hi) ELSE ISqrt(n, lo, mid)

Root(n) == ISqrt(n, 0, 46341)
IsSquare(n) == Root(n) * Root(n) = n

\* the exponent k with n = 10^k, or -1 when n > 0 is no power of ten
RECURSIVE Log10Int(_)
Log10Int(n) ==
  IF n = 1 THEN 0
  ELSE IF n % 10 # 0 THEN -1
  ELSE LET k == Log10Int(n \div 10) IN IF k < 0 THEN -1 ELSE k + 1

MathAbs(v) ==
  IF v.k = "fin" THEN Val("fin", Abs(v.n), Abs(v.d), v.tag)
  ELSE IF v.k = "inf" THEN Infinity
  ELSE IF v.k = "real" THEN Real(Abs(v.n), v.tag)
  ELSE NaN

MathFloor(v) ==
  IF v.k = "fin" /\ v.n # 0 /\ v.tag = "" THEN Whole(v.n \div v.d)
  ELSE IF v.k = "fin" /\ v.n # 0 THEN Real(SignOf(v), "?")
  ELSE v

MathSqrt(v) ==
  IF v.k = "nan" \/ (SignOf(v) < 0 /\ ~IsZero(v)) THEN NaN
  ELSE IF IsZero(v) \/ v.k = "inf" THEN v
  ELSE IF v.k = "fin" /\ v.tag = "" /\ IsSquare(v.n) /\ IsSquare(v.d)
    THEN Frac(Root(v.n), Root(v.d), "")
  ELSE Real(1, "sqrt")

\* Math.log10 (base = 10) and Math.log (base = 0, the natural logarithm)
MathLog(v, base) ==
  IF v.k = "nan" THEN NaN
  ELSE IF IsZero(v) THEN NegInfinity
  ELSE IF SignOf(v) < 0 THEN NaN
  ELSE IF v.k = "inf" THEN Infinity
  ELSE IF v.k = "fin" /\ v.tag = "" /\ v.n = v.d THEN Zero
  ELSE IF v.k = "fin" /\ v.tag = "" /\ base = 10 /\ v.d = 1 /\ Log10Int(v.n) > 0
    THEN Whole(Log10Int(v.n))
  ELSE IF v.k = "fin" /\ v.tag = "" /\ base = 10 /\ v.n = 1 /\ Log10Int(v.d) > 0
    THEN Whole(-Log10Int(v.d))
  ELSE IF v.k = "fin" /\ v.tag = "" THEN Real(IF v.n > v.d THEN 1 ELSE -1, "log")
  ELSE Real(0, "log")

\* sin(q * pi) for the rational q = n/d by its position m on the twelve-point
\* circle (m = 6q mod 12), where it is rational; at a non-zero multiple of pi
\* the double nearest to it has a sine that is tiny and not zero
SinTwelfths(m) ==
  IF m \in {0, 6} THEN Real(0, "sin")
  ELSE IF m \in {1, 5} THEN Frac(1, 2, "")
  ELSE IF m = 3 THEN Whole(1)
  ELSE IF m \in {7, 11} THEN Frac(-1, 2, "")
  ELSE IF m = 9 THEN Whole(-1)
  ELSE Real(IF m < 6 THEN 1 ELSE -1, "sin")

\* Math.sin, with shift = 0, and Math.cos, with shift = 3 (a quarter turn)
MathSinCos(x, shift) ==
  IF x.k \in {"nan", "inf"} THEN NaN
  ELSE IF IsZero(x) THEN (IF shift = 0 THEN x ELSE Whole(1))
  ELSE IF x.k = "fin" /\ x.tag = "pi" /\ 6 % x.d = 0
    THEN SinTwelfths((x.n * (6 \div x.d) + shift) % 12)
  ELSE Real(0, IF shift = 0 THEN "sin" ELSE "cos")

MathSin(x) == MathSinCos(x, 0)
MathCos(x) == MathSinCos(x, 3)

MathTan(x) ==
  IF x.k \in {"nan", "inf"} THEN NaN
  ELSE IF IsZero(x) THEN x
  ELSE IF x.k = "fin" /\ x.tag = "pi" /\ x.d = 4
    THEN Whole(IF x.n % 4 = 1 THEN 1 ELSE -1)
  ELSE Real(0, "tan")

MathAsin(v) ==
  IF v.k = "nan" \/ v.k = "inf" \/ MagnitudeAboveOne(v) THEN NaN
  ELSE IF IsZero(v) THEN v
  ELSE IF v.k = "fin" /\ v.tag = "" /\ Abs(v.n) = 1 /\ v.d \in {1, 2}
    THEN Frac(v.n, IF v.d = 1 THEN 2 ELSE 6, "pi")
  ELSE Real(SignOf(v), "asin")

MathAcos(v) ==
  IF v.k = "nan" \/ v.k = "inf" \/ MagnitudeAboveOne(v) THEN NaN
  ELSE IF IsZero(v) THEN Frac(1, 2, "pi")
  ELSE IF v.k = "fin" /\ v.tag = "" /\ v.n = 1 /\ v.d = 1 THEN Zero
  ELSE IF v.k = "fin" /\ v.tag = "" /\ v.n = -1 /\ v.d = 1 THEN PI
  ELSE IF v.k = "fin" /\ v.tag = "" /\ Abs(v.n) = 1 /\ v.d = 2
    THEN Frac(IF v.n = 1 THEN 1 ELSE 2, 3, "pi")
  ELSE Real(1, "acos")

MathAtan(v) ==
  IF v.k = "nan" THEN NaN
  ELSE IF IsZero(v) THEN v
  ELSE IF v.k = "inf" THEN Frac(v.n, 2, "pi")
  ELSE IF v.k = "fin" /\ v.tag = "" /\ Abs(v.n) = 1 /\ v.d = 1 THEN Frac(v.n, 4, "pi")
  ELSE Real(SignOf(v), "atan")

\* isFinite(v): ToNumber(v) is neither NaN nor an infinity
isFinite(v) == ToNumber(v).k \in {"fin", "real"}

\* a === b on numbers
StrictEquals(a, b) ==
  IF a.k = "nan" \/ b.k = "nan" THEN FALSE
  ELSE IF IsZero(a) /\ IsZero(b) THEN TRUE
  ELSE a = b

\* the first significant digit of the rational n/d with 0 < n < d
RECURSIVE LeadingDigit(_, _)
LeadingDigit(n, d) ==
  IF n >= d THEN n \div d
  ELSE IF ~MulOK(n, 10) THEN 0
  ELSE LeadingDigit(n * 10, d)

\* whether String(v) is written with an exponent: 0 < |v| < 1e-6 (a "fin"
\* number is always below 1e21)
HasExponentForm(v) ==
  v.k = "fin" /\ v.n # 0 /\ v.tag = "" /\ MulOK(Abs(v.n), 1000000)
  /\ Abs(v.n) * 1000000 < v.d

\* parseFloat(v): ToString(v) read back as a numeral
parseFloat(v) ==
  IF v.k = "str" THEN (IF v.d = 0 THEN NaN ELSE Frac(v.n, v.d, ""))
  ELSE IF ~IsNum(v) THEN NaN
  ELSE IF IsZero(v) THEN Zero
  ELSE v

\* parseInt(v): the integer numeral that ToString(v) starts with
parseInt(v) ==
  IF v.k = "str" THEN (IF v.d = 0 THEN NaN ELSE Whole(Sgn(v.n) * (Abs(v.n) \div v.d)))
  ELSE IF ~IsNum(v) \/ v.k \in {"nan", "inf"} THEN NaN
  ELSE IF IsZero(v) THEN Zero
  ELSE IF v.k = "real" \/ v.tag # "" THEN Real(SignOf(v), "?")
  ELSE IF HasExponentForm(v)
    THEN (IF LeadingDigit(Abs(v.n), v.d) = 0 THEN Real(SignOf(v), "?")
          ELSE Whole(Sgn(v.n) * LeadingDigit(Abs(v.n), v.d)))
  ELSE IF Abs(v.n) < v.d THEN (IF v.n < 0 THEN NegZero ELSE Zero)
  ELSE Whole(Sgn(v.n) * (Abs(v.n) \div v.d))

-----------------------------------------------------------------------------
(* The text of a function body "return " + expr, run by new Function(...)(): *)
(* the lexical grammar, the expression grammar and the evaluation of         *)
(* JavaScript (sloppy mode) over the characters that evaluateExpression      *)
(* lets through, 0-9 + - * / ( ) . , e.  The result is a value, or Thrown    *)
(* when the Function constructor or the call throws.                         *)

Digits == <<"0", "1", "2", "3", "4", "5", "6", "7", "8", "9">>
IsDigit(c) == c \in {"0", "1", "2", "3", "4", "5", "6", "7", "8", "9"}
DigitVal(c) == (CHOOSE i \in 1..10 : Digits[i] = c) - 1

Thrown == Val("throw", 0, 0, "")

Tok(t, sym, v) == [t |-> t, s |-> sym, v |-> v]
ErrTok == Tok("err", "", NaN)
HasErr(toks) == \E i \in 1..Len(toks) : toks[i].t = "err"

\* the first index >= i of s that holds no digit
RECURSIVE DigitsEnd(_, _)
DigitsEnd(s, i) == IF i <= Len(s) /\ IsDigit(s[i]) THEN DigitsEnd(s, i + 1) ELSE i

\* the value of the digits s[i..j-1] in the given base, and Real(1, "?") when
\* it is beyond the exact range
RECURSIVE DigitsValue(_, _, _, _, _)
DigitsValue(s, i, j, base, acc) ==
  IF i >= j THEN Whole(acc)
  ELSE IF ~MulOK(acc, base * 2) THEN Real(1, "?")
  ELSE DigitsValue(s, i + 1, j, base, acc * base + DigitVal(s[i]))

\* a LegacyOctalIntegerLiteral starts at i: 0 and then octal digits only
IsLegacyOctal(s, i) ==
  /\ s[i] = "0" /\ i < Len(s) /\ IsDigit(s[i + 1])
  /\ \A m \in i..(DigitsEnd(s, i) - 1) : s[m] \notin {"8", "9"}

\* the index after the mantissa of the numeric literal that starts at i
MantissaEnd(s, i) ==
  LET j == DigitsEnd(s, i)
  IN IF IsLegacyOctal(s, i) THEN j
     ELSE IF j <= Len(s) /\ s[j] = "." THEN DigitsEnd(s, j + 1)
     ELSE j

\* the index after an ExponentPart that starts at j (e, a sign, digits), or j
ExponentEnd(s, j) ==
  IF j < Len(s) /\ s[j] = "e" /\ IsDigit(s[j + 1]) THEN DigitsEnd(s, j + 1)
  ELSE IF j + 1 < Len(s) /\ s[j] = "e" /\ s[j + 1] \in {"+", "-"} /\ IsDigit(s[j + 2])
    THEN DigitsEnd(s, j + 2)
  ELSE j

NumberEnd(s, i) ==
  IF IsLegacyOctal(s, i) THEN MantissaEnd(s, i) ELSE ExponentEnd(s, MantissaEnd(s, i))

\* the value of the numeric literal s[i..j-1]
\* the fraction digits s[ip+1..m-1] as a number
FractionValue(s, m, ip, fracDigits) ==
  IF fracDigits = 0 THEN Zero
  ELSE Div(DigitsValue(s, ip + 1, m, 10, 0), Pow(Whole(10), Whole(fracDigits)))

SignedExponent(s, m, ev) == IF s[m + 1] = "-" THEN Neg(ev) ELSE ev

\* the exponent part that starts after the mantissa end m
ExponentValue(s, j, m) ==
  SignedExponent(s, m, DigitsValue(s, IF s[m + 1] \in {"+", "-"} THEN m + 2 ELSE m + 1,
                                   j, 10, 0))

ScaledValue(s, j, m, mant) ==
  IF m < j THEN Mul(mant, Pow(Whole(10), ExponentValue(s, j, m))) ELSE mant

\* the decimal literal s[i..j-1] with the mantissa end m and the end ip of the
\* integer digits
DecimalValue(s, i, j, m, ip) ==
  ScaledValue(s, j, m, Add(DigitsValue(s, i, ip, 10, 0),
                           FractionValue(s, m, ip, IF ip < m THEN m - ip - 1 ELSE 0)))

NumberValue(s, i, j) ==
  IF IsLegacyOctal(s, i) THEN DigitsValue(s, i, j, 8, 0)
  ELSE DecimalValue(s, i, j, MantissaEnd(s, i), DigitsEnd(s, i))

\* the index after the comment closer "*/" found from i on, 0 when there is none
RECURSIVE CommentEnd(_, _)
CommentEnd(s, i) ==
  IF i >= Len(s) THEN 0
  ELSE IF s[i] = "*" /\ s[i + 1] = "/" THEN i + 2
  ELSE CommentEnd(s, i + 1)

\* the index of the first "/" from i on, 0 when there is none
RECURSIVE SlashAt(_, _)
SlashAt(s, i) ==
  IF i > Len(s) THEN 0 ELSE IF s[i] = "/" THEN i ELSE SlashAt(s, i + 1)

\* whether s[i..j] is a regular expression pattern: a quantifier (* or +) needs
\* an atom before it and parentheses balance; atom: the last term can take a
\* quantifier; depth: the open groups
RECURSIVE ValidPattern(_, _, _, _, _)
ValidPattern(s, i, j, atom, depth) ==
  IF i > j THEN depth = 0
  ELSE IF s[i] \in {"*", "+"} THEN atom /\ ValidPattern(s, i + 1, j, FALSE, depth)
  ELSE IF s[i] = "(" THEN ValidPattern(s, i + 1, j, FALSE, depth + 1)
  ELSE IF s[i] = ")" THEN depth > 0 /\ ValidPattern(s, i + 1, j, TRUE, depth - 1)
  ELSE ValidPattern(s, i + 1, j, TRUE, depth)

\* The tokens of s from index i on.  operand: the previous token ends an
\* operand, so that a "/" is the division sign and not the start of a regular
\* expression literal.  A lexical error is the token ErrTok.
RECURSIVE Lex(_, _, _)
Lex(s, i, operand) ==
  IF i > Len(s) THEN <<>>
  ELSE LET c == s[i]
           next == IF i < Len(s) THEN s[i + 1] ELSE ""
       IN
    IF IsDigit(c) \/ (c = "." /\ IsDigit(next))
      THEN LET j == NumberEnd(s, i)
           IN IF j <= Len(s) /\ (IsDigit(s[j]) \/ s[j] = "e") THEN <<ErrTok>>
              ELSE <<Tok("num", "", NumberValue(s, i, j))>> \o Lex(s, j, TRUE)
    ELSE IF c = "/" /\ next = "/" THEN <<>>
    ELSE IF c = "/" /\ next = "*"
      THEN LET j == CommentEnd(s, i + 2)
           IN IF j = 0 THEN <<ErrTok>> ELSE Lex(s, j, operand)
    ELSE IF c = "/" /\ ~operand
      THEN LET j == SlashAt(s, i + 1)
           IN IF j = 0 \/ ~ValidPattern(s, i + 1, j - 1, FALSE, 0) THEN <<ErrTok>>
              ELSE IF j < Len(s) /\ (IsDigit(s[j + 1]) \/ s[j + 1] = "e") THEN <<ErrTok>>
              ELSE <<Tok("regex", "", RegExpObject)>> \o Lex(s, j + 1, TRUE)
    ELSE IF c \in {"+", "-"} /\ next = c THEN <<ErrTok>>
    ELSE IF c = "*" /\ next = "*" THEN <<Tok("op", "**", NaN)>> \o Lex(s, i + 2, FALSE)
    ELSE IF c \in {"+", "-", "*", "/", "(", ","}
      THEN <<Tok("op", c, NaN)>> \o Lex(s, i + 1, FALSE)
    ELSE IF c = ")" THEN <<Tok("op", c, NaN)>> \o Lex(s, i + 1, TRUE)
    ELSE <<ErrTok>>

\* a parse result: the value v of the expression read and the index i of the
\* token after it; Fail when the tokens are no expression or evaluating throws
Parsed(v, i) == [ok |-> TRUE, v |-> v, i |-> i]
Fail == [ok |-> FALSE, v |-> NaN, i |-> 0]

IsOp(t, i, sym) == i <= Len(t) /\ t[i].t = "op" /\ t[i].s = sym

\* the text of a string starts with the numeral of a (a "fin" number)
StartsWith(a) == Val("str", IF a.n = 0 THEN 0 ELSE a.n, Abs(a.d), "")

\* a + b: string concatenation when an operand is an object or a string
\* (ToPrimitive of a regular expression is its source text "/.../"), and the
\* sum of the numbers otherwise (undefined converts to NaN)
Plus(a, b) ==
  IF a.k \in {"regex", "str"} \/ b.k \in {"regex", "str"}
    THEN IF a.k = "str" THEN a
         ELSE IF a.k \in {"regex", "undefined", "nan"} THEN Val("str", 0, 0, "")
         ELSE IF a.k = "fin" /\ a.tag = "" /\ (b.k = "regex" \/ b.d = 0) THEN StartsWith(a)
         ELSE Val("str", 0, 0, "?")
  ELSE Add(ToNumber(a), ToNumber(b))

Binary(sym, a, b) ==
  IF sym = "+" THEN Plus(a, b)
  ELSE IF sym = "-" THEN Sub(ToNumber(a), ToNumber(b))
  ELSE IF sym = "*" THEN Mul(ToNumber(a), ToNumber(b))
  ELSE IF sym = "/" THEN Div(ToNumber(a), ToNumber(b))
  ELSE Pow(ToNumber(a), ToNumber(b))

RECURSIVE ParseExpression(_, _)
RECURSIVE ParseAdditive(_, _)
RECURSIVE AdditiveRest(_, _)
RECURSIVE ParseMultiplicative(_, _)
RECURSIVE MultiplicativeRest(_, _)
RECURSIVE ParseExponentiation(_, _)
RECURSIVE ParseUnary(_, _)
RECURSIVE ParsePrimary(_, _)

\* the result r of an operand, read as the right operand of sym after the
\* left operand l
Applied(sym, l, r) == IF l.ok /\ r.ok THEN Parsed(Binary(sym, l.v, r.v), r.i) ELSE Fail

\* the result e of the expression after a "(": the ")" closes it
Closed(t, e) == IF e.ok /\ IsOp(t, e.i, ")") THEN Parsed(e.v, e.i + 1) ELSE Fail

\* A "(" after a primary expression r makes a call of a value that is no
\* function, which throws a TypeError.
NotCalled(t, r) == IF r.ok /\ IsOp(t, r.i, "(") THEN Fail ELSE r

\* PrimaryExpression: a literal or a parenthesized expression
ParsePrimary(t, i) ==
  IF i > Len(t) THEN Fail
  ELSE IF t[i].t \in {"num", "regex"} THEN NotCalled(t, Parsed(t[i].v, i + 1))
  ELSE IF IsOp(t, i, "(") THEN NotCalled(t, Closed(t, ParseExpression(t, i + 1)))
  ELSE Fail

\* the operand r under the unary operator sym, which converts it to a number
Signed(sym, r) ==
  IF ~r.ok THEN Fail
  ELSE Parsed(IF sym = "-" THEN Neg(ToNumber(r.v)) ELSE ToNumber(r.v), r.i)

\* UnaryExpression
ParseUnary(t, i) ==
  IF IsOp(t, i, "+") \/ IsOp(t, i, "-") THEN Signed(t[i].s, ParseUnary(t, i + 1))
  ELSE ParsePrimary(t, i)

\* ExponentiationExpression: UnaryExpression, or UpdateExpression ** Exponentiation-
\* Expression (right-associative); a unary operator on the base is a SyntaxError.
\* r is the unary expression read at i.
Raised(t, i, r) ==
  IF ~r.ok THEN Fail
  ELSE IF IsOp(t, r.i, "**")
    THEN IF IsOp(t, i, "+") \/ IsOp(t, i, "-") THEN Fail
         ELSE Applied("**", r, ParseExponentiation(t, r.i + 1))
  ELSE r

ParseExponentiation(t, i) == Raised(t, i, ParseUnary(t, i))

\* MultiplicativeExpression, left-associative: l is the left operand read so far
MultiplicativeRest(t, l) ==
  IF ~l.ok THEN Fail
  ELSE IF IsOp(t, l.i, "*") \/ IsOp(t, l.i, "/")
    THEN MultiplicativeRest(t, Applied(t[l.i].s, l, ParseExponentiation(t, l.i + 1)))
  ELSE l

ParseMultiplicative(t, i) == MultiplicativeRest(t, ParseExponentiation(t, i))

\* AdditiveExpression, left-associative
AdditiveRest(t, l) ==
  IF ~l.ok THEN Fail
  ELSE IF IsOp(t, l.i, "+") \/ IsOp(t, l.i, "-")
    THEN AdditiveRest(t, Applied(t[l.i].s, l, ParseMultiplicative(t, l.i + 1)))
  ELSE l

ParseAdditive(t, i) == AdditiveRest(t, ParseMultiplicative(t, i))

\* Expression: the comma operator yields its last operand; l is the operand
\* read so far
Sequenced(t, l) ==
  IF l.ok /\ IsOp(t, l.i, ",") THEN ParseExpression(t, l.i + 1) ELSE l

ParseExpression(t, i) == Sequenced(t, ParseAdditive(t, i))

\* the value returned for the tokens t, read as the expression r
Returned(t, r) == IF r.ok /\ r.i = Len(t) + 1 THEN r.v ELSE Thrown

\* the function with the tokens t is made and called: undefined for a bare
\* return
Called(t) ==
  IF HasErr(t) THEN Thrown
  ELSE IF t = <<>> THEN Undefined
  ELSE Returned(t, ParseExpression(t, 1))

\* new Function("return " + text)()
RunFunction(text) == Called(Lex(text, 1, FALSE))

-----------------------------------------------------------------------------
(* Numerals: Number.prototype.toPrecision, toExponential and toString on   *)
(* the exact numbers, by long division.                                    *)

DigitChar(k) == Digits[k + 1]

\* the decimal digits of a natural number
RECURSIVE IntDigits(_)
IntDigits(n) == IF n < 10 THEN <<n>> ELSE Append(IntDigits(n \div 10), n % 10)

\* the next count digits of the long division r/d, 0 <= r < d
RECURSIVE FracDigits(_, _, _)
FracDigits(r, d, count) ==
  IF count <= 0 THEN <<>>
  ELSE <<(r * 10) \div d>> \o FracDigits((r * 10) % d, d, count - 1)

\* for 0 < n < d: the number of zeros between the decimal point and the first
\* significant digit of n/d, plus one
RECURSIVE PointShift(_, _)
PointShift(n, d) == IF n * 10 >= d THEN 1 ELSE 1 + PointShift(n * 10, d)

RECURSIVE TimesTen(_, _)
TimesTen(n, k) == IF k = 0 THEN n ELSE TimesTen(n * 10, k - 1)

\* SigDigits of n/d >= 1 with the digits ip of its integer part, and of
\* n/d < 1 with the point shift k
SigDigitsAfter(n, d, count, ip) ==
  [ds |-> SubSeq(ip \o FracDigits(n % d, d, count - Len(ip)), 1, count), e |-> Len(ip) - 1]

SigDigitsBelowOne(n, d, count, k) ==
  [ds |-> FracDigits(TimesTen(n, k - 1), d, count), e |-> -k]

\* the first count significant digits of n/d > 0, not rounded, and the decimal
\* exponent e of the first one: n/d = d1.d2d3... * 10^e
SigDigits(n, d, count) ==
  IF n >= d
    THEN SigDigitsAfter(n, d, count, IntDigits(n \div d))
  ELSE SigDigitsBelowOne(n, d, count, PointShift(n, d))

\* ds plus one in the last place; a carry out of the first place gives one
\* more digit
RECURSIVE Increment(_, _)
Increment(ds, i) ==
  IF i = 0 THEN <<1>> \o ds
  ELSE IF ds[i] = 9 THEN Increment([ds EXCEPT ![i] = 0], i - 1)
  ELSE [ds EXCEPT ![i] = ds[i] + 1]

\* the digits up of count places, or of one more after a carry, with the
\* exponent e of the digits before the carry
Carried(up, e, count) ==
  IF Len(up) > count THEN [ds |-> SubSeq(up, 1, count), e |-> e + 1]
  ELSE [ds |-> up, e |-> e]

\* the count + 1 significant digits sd rounded to count, the first count being kept
RoundedKeeping(sd, kept, count) ==
  Carried(IF sd.ds[count + 1] >= 5 THEN Increment(kept, count) ELSE kept, sd.e, count)

RoundedFrom(sd, count) == RoundedKeeping(sd, SubSeq(sd.ds, 1, count), count)

\* n/d > 0 rounded to count significant digits, ties away from zero
Rounded(n, d, count) ==
  RoundedFrom(SigDigits(n, d, count + 1), count)

RECURSIVE StripZeros(_)
StripZeros(ds) ==
  IF Len(ds) > 1 /\ ds[Len(ds)] = 0 THEN StripZeros(SubSeq(ds, 1, Len(ds) - 1)) ELSE ds

Chars(ds) == [i \in 1..Len(ds) |-> DigitChar(ds[i])]
Zeros(k) == [i \in 1..k |-> "0"]

\* the numeral with the significant digits ds (no trailing zeros) and the
\* exponent e, as Number::toString writes it: positional from 1e-6 on, and
\* with an exponent below
Numeral(ds, e) ==
  IF e >= Len(ds) - 1 THEN Chars(ds) \o Zeros(e - (Len(ds) - 1))
  ELSE IF e >= 0 THEN Chars(SubSeq(ds, 1, e + 1)) \o <<".">> \o Chars(SubSeq(ds, e + 2, Len(ds)))
  ELSE IF e >= -6 THEN <<"0", ".">> \o Zeros(-e - 1) \o Chars(ds)
  ELSE Chars(SubSeq(ds, 1, 1))
       \o (IF Len(ds) > 1 THEN <<".">> \o Chars(SubSeq(ds, 2, Len(ds))) ELSE <<>>)
       \o <<"e", "-">> \o Chars(IntDigits(-e))

SignChars(v) == IF SignOf(v) < 0 /\ ~IsZero(v) THEN <<"-">> ELSE <<>>

\* the digits of a "real" number, and of a rational whose long division is out
\* of the exact range, are not computed: its numeral is the mark "#" and the tag
RealNumeral(v) == SignChars(v) \o <<"#", IF v.tag # "" THEN v.tag ELSE "big">>
Computed(v) == v.k = "fin" /\ v.tag = "" /\ MulOK(v.d, 10)

\* the numeral of num with the rounded digits r, trailing zeros dropped
PrecisionWritten(num, r) == SignChars(num) \o Numeral(StripZeros(r.ds), r.e)

\* parseFloat(num.toPrecision(p)).toString() for a finite num
PrecisionNumeral(num, p) ==
  IF ~Computed(num) THEN RealNumeral(num)
  ELSE IF IsZero(num) THEN <<"0">>
  ELSE PrecisionWritten(num, Rounded(Abs(num.n), num.d, p))

\* the exponent form of num with the f + 1 rounded digits r
ExponentialWritten(num, f, r) ==
  SignChars(num) \o Chars(SubSeq(r.ds, 1, 1))
  \o (IF f > 0 THEN <<".">> \o Chars(SubSeq(r.ds, 2, f + 1)) ELSE <<>>)
  \o <<"e", IF r.e < 0 THEN "-" ELSE "+">> \o Chars(IntDigits(Abs(r.e)))

\* num.toExponential(f) for a finite num
toExponential(num, f) ==
  IF ~Computed(num) THEN RealNumeral(num)
  ELSE ExponentialWritten(num, f,
                          IF IsZero(num) THEN [ds |-> [i \in 1..(f + 1) |-> 0], e |-> 0]
                          ELSE Rounded(Abs(num.n), num.d, f + 1))

\* the fixed form of num with the rounded digits up, f of them after the point
FixedWritten(num, f, up, point) ==
  SignChars(num) \o Chars(SubSeq(up, 1, point))
  \o (IF f > 0 THEN <<".">> \o Chars(SubSeq(up, point + 1, Len(up))) ELSE <<>>)

FixedRounded(num, f, up) == FixedWritten(num, f, up, Len(up) - f)

\* the digits all of num to f + 1 places rounded to f, the first ones being kept
FixedKeeping(num, f, all, kept) ==
  FixedRounded(num, f, IF all[Len(all)] >= 5 THEN Increment(kept, Len(kept)) ELSE kept)

FixedDigits(num, f, ip, all) == FixedKeeping(num, f, all, SubSeq(all, 1, Len(ip) + f))

\* toFixed of num with the digits ip of its integer part
FixedFrom(num, f, ip) ==
  FixedDigits(num, f, ip,
              ip \o FracDigits(Abs(num.n) % Abs(num.d), Abs(num.d), f + 1))

\* num.toFixed(f) for a finite num: f digits after the point, ties away from
\* zero
toFixed(num, f) ==
  IF ~Computed(num) THEN RealNumeral(num)
  ELSE FixedFrom(num, f, IntDigits(Abs(num.n) \div Abs(num.d)))

\* the remainder of the long division r/d after count more digits
RECURSIVE Remainder(_, _, _)
Remainder(r, d, count) ==
  IF count <= 0 \/ r = 0 THEN r ELSE Remainder((r * 10) % d, d, count - 1)

\* the decimal expansion of n/d > 0 ends within count significant digits
Terminates(n, d, count) ==
  IF n >= d THEN Remainder(n % d, d, count - Len(IntDigits(n \div d))) = 0
  ELSE Remainder(n, d, PointShift(n, d) + count - 1) = 0

\* String(v) is a numeral that the model computes: a decimal numeral of at most
\* 15 significant digits is the shortest one that reads back as its double
HasText(v) ==
  IF v.k \in {"nan", "inf"} \/ IsZero(v) THEN TRUE
  ELSE IF Computed(v) THEN Terminates(Abs(v.n), v.d, 15)
  ELSE FALSE

\* String(v), Number::toString, for a v with HasText(v)
NumberToString(v) ==
  IF v.k = "nan" THEN <<"N", "a", "N">>
  ELSE IF v.k = "inf" THEN SignChars(v) \o <<"I", "n", "f", "i", "n", "i", "t", "y">>
  ELSE IF IsZero(v) THEN <<"0">>
  ELSE LET sd == SigDigits(Abs(v.n), v.d, 15)
       IN SignChars(v) \o Numeral(StripZeros(sd.ds), sd.e)

\* the text with the exponent mark E written e
LowerE(text) == [i \in 1..Len(text) |-> IF text[i] = "E" THEN "e" ELSE text[i]]

\* the index of the last of the zeros that start at i and precede a digit
RECURSIVE ZerosEnd(_, _)
ZerosEnd(s, i) ==
  IF i < Len(s) /\ s[i] = "0" /\ IsDigit(s[i + 1]) THEN ZerosEnd(s, i + 1) ELSE i

\* parseFloat of the text s from i on, after the sign: the decimal literal the
\* text starts with (the numeral "#" tag of a "real" number is that number)
UnsignedValue(s, i) ==
  IF i > Len(s) THEN NaN
  ELSE IF s[i] = "#" THEN Real(1, s[i + 1])
  ELSE IF s[i] = "I"
    THEN (IF SubSeq(s, i, i + 7) = <<"I", "n", "f", "i", "n", "i", "t", "y">>
            THEN Infinity ELSE NaN)
  ELSE IF IsDigit(s[i]) \/ (s[i] = "." /\ i < Len(s) /\ IsDigit(s[i + 1]))
    THEN NumberValue(s, i, ExponentEnd(s, MantissaEnd(s, i)))
  ELSE NaN

\* parseFloat(text) for a string
ParseFloatText(text) ==
  IF text = <<>> THEN NaN
  ELSE CHOOSE value \in
         { IF Head(text) = "-" THEN Neg(unsigned) ELSE unsigned :
             unsigned \in {UnsignedValue(LowerE(text),
                             ZerosEnd(text, IF Head(text) \in {"-", "+"} THEN 2 ELSE 1))} } :
         TRUE

\* parseInt(text) for a string: the digits the text starts with, after a sign
ParseIntText(text) ==
  IF text = <<>> THEN NaN
  ELSE IF Head(text) = "-"
    THEN (IF DigitsEnd(text, 2) = 2 THEN NaN
          ELSE Neg(DigitsValue(text, 2, DigitsEnd(text, 2), 10, 0)))
  ELSE IF DigitsEnd(text, 1) = 1 THEN NaN
  ELSE DigitsValue(text, 1, DigitsEnd(text, 1), 10, 0)

-----------------------------------------------------------------------------
(* The calculator: constants and state (script.js, the state object and the *)
(* error display element).                                                   *)

MAX_DISPLAY_LENGTH == 16
DISPLAY_PRECISION == 10
HISTORY_SIZE == 8

\* the number of button presses a behaviour handles
MaxKeys == 2

Times == "U+00D7"
Divide == "U+00F7"
Minus == "U+2212"
Pi == "U+03C0"

\* the digits of the number buttons pressed in the model, the operation
\* buttons, and the functions of the trig and log buttons
NumberKeys == {"0", "1", "2", "7"}
OperationKeys == {Divide, Times, Minus, "+"}
TrigFunctions == {"sin", "cos", "tan"}
LogFunctions == {"log", "ln"}

VARIABLES
  isOn, isSecondMode, isAlphaMode, angleMode, displayMode, fixDecimals,
  entryLine, resultLine, history, memory, lastAnswer, cursorPosition,
  isInsertMode, historyIndex, isInStatMode,
  errorDisplay,  \* the element: its textContent, hidden and style.background
  timers,        \* the callbacks that setTimeout holds, in the order set
  keys           \* the number of button presses handled

settings == <<angleMode, displayMode, fixDecimals>>
flags == <<isAlphaMode, isInsertMode, isInStatMode>>
answer == <<resultLine, history, lastAnswer>>
place == <<cursorPosition, historyIndex>>
message == <<errorDisplay, timers>>
vars == <<isOn, isSecondMode, settings, flags, entryLine, answer, memory, place,
          message, keys>>

-----------------------------------------------------------------------------
(* Expression parsing and evaluation, and the utility functions *)

PiText == <<"3", ".", "1", "4", "1", "5", "9", "2", "6", "5", "3", "5", "8", "9", "7", "9", "3">>
EText == <<"2", ".", "7", "1", "8", "2", "8", "1", "8", "2", "8", "4", "5", "9", "0", "4", "5">>

\* the replacements of parseExpression, character by character (no replacement
\* text holds a character that a later replacement matches)
RECURSIVE parseExpression(_)
parseExpression(expr) ==
  IF expr = <<>> THEN <<>>
  ELSE LET c == Head(expr)
       IN (IF c = Times THEN <<"*">>
           ELSE IF c = Divide THEN <<"/">>
           ELSE IF c = Minus THEN <<"-">>
           ELSE IF c = Pi THEN PiText
           ELSE IF c = "e" THEN EText
           ELSE IF c = "E" THEN <<"e">>
           ELSE <<c>>) \o parseExpression(Tail(expr))

\* a pattern that leaves the letter x as well
SafeOrVariable(c) == IsDigit(c) \/ c \in {"+", "-", "*", "/", "(", ")", ".", ",", "e", "x"}

\* the characters that /[^0-9+\-*/().,e]/g leaves
Safe(c) == IsDigit(c) \/ c \in {"+", "-", "*", "/", "(", ")", ".", ",", "e"}

\* expr.replace(/[^0-9+\-*/().,e]/g, ""): the text handed to new Function
sanitizedExpr(expr) == SelectSeq(expr, Safe)

\* the value of the sanitized text, or Thrown (the catch clause throws again)
evaluateExpression(expr) == RunFunction(sanitizedExpr(expr))

\* Math.abs(num) < 1e-10 and Math.abs(num) > 1e10 for a finite num: of the
\* exact rationals (numerator and denominator below 2^31) zero alone is below
\* 1e-10 and none is above 1e10; a "real" number is not compared
BelowNormRange(num) == IsZero(num)
AboveNormRange(num) == FALSE

\* the power of ten 10^k for 0 <= k <= 9
RECURSIVE TenTo(_)
TenTo(k) == IF k = 0 THEN 1 ELSE 10 * TenTo(k - 1)

\* mantissa.toFixed(decimals) + "E" + engExp
EngineeringWritten(decimals, engExp, mantissa) ==
  toFixed(mantissa, decimals) \o <<"E">>
  \o (IF engExp < 0 THEN <<"-">> ELSE <<>>) \o Chars(IntDigits(Abs(engExp)))

\* num / Math.pow(10, engExp), with scale = 10^|engExp|
EngineeringScaled(num, decimals, engExp, scale) ==
  EngineeringWritten(decimals, engExp,
                     IF engExp >= 0 THEN Div(num, scale) ELSE Mul(num, scale))

EngineeringWith(num, decimals, engExp) ==
  EngineeringScaled(num, decimals, engExp,
                    IF Abs(engExp) <= 9 THEN Whole(TenTo(Abs(engExp))) ELSE Big(1))

formatEngineering(num, decimals) ==
  IF IsZero(num) THEN <<"0">>
  ELSE IF ~Computed(num) THEN RealNumeral(num)
  ELSE EngineeringWith(num, decimals, (SigDigits(Abs(num.n), num.d, 1).e \div 3) * 3)

\* formatNumber without the test of isFinite(num)
formatNumberUnchecked(num, mode, decimals) ==
  IF mode = "FIX" THEN toFixed(num, decimals)
  ELSE IF mode = "SCI" THEN toExponential(num, decimals)
  ELSE IF mode = "ENG" THEN formatEngineering(num, decimals)
  ELSE IF BelowNormRange(num) \/ AboveNormRange(num)
    THEN toExponential(num, DISPLAY_PRECISION)
  ELSE PrecisionNumeral(num, DISPLAY_PRECISION)

formatNumber(num, mode, decimals) ==
  IF ~isFinite(num) THEN <<"E", "r", "r", "o", "r">>
  ELSE IF mode = "FIX" THEN toFixed(num, decimals)
  ELSE IF mode = "SCI" THEN toExponential(num, decimals)
  ELSE IF mode = "ENG" THEN formatEngineering(num, decimals)
  ELSE IF BelowNormRange(num) \/ AboveNormRange(num)
    THEN toExponential(num, DISPLAY_PRECISION)
  ELSE PrecisionNumeral(num, DISPLAY_PRECISION)

convertAngleToRadians(angle, mode) ==
  IF mode = "DEG" THEN Div(Mul(angle, PI), Whole(180))
  ELSE IF mode = "GRAD" THEN Div(Mul(angle, PI), Whole(200))
  ELSE angle

convertRadiansToAngle(radians, mode) ==
  IF mode = "DEG" THEN Div(Mul(radians, Whole(180)), PI)
  ELSE IF mode = "GRAD" THEN Div(Mul(radians, Whole(200)), PI)
  ELSE radians

isOperator(char) == char \in {"+", Minus, Times, Divide, "^"}

\* the index where the match of /[-+]?[\d.]*$/ starts in entry: the longest
\* run of digits and points that ends the entry, and an ASCII sign before it
RECURSIVE NumberStart(_, _)
NumberStart(entry, i) ==
  IF i >= 1 /\ (IsDigit(entry[i]) \/ entry[i] = ".") THEN NumberStart(entry, i - 1)
  ELSE IF i >= 1 /\ entry[i] \in {"-", "+"} THEN i
  ELSE i + 1

\* getCurrentNumber() that matches the last character alone
getLastCharacter(entry) == IF entry = <<>> THEN <<>> ELSE <<entry[Len(entry)]>>

getCurrentNumber(entry) == SubSeq(entry, NumberStart(entry, Len(entry)), Len(entry))

\* addToHistory(entry, result) without the pop
addToHistoryUnbounded(hist, entry, result) ==
  <<[entry |-> entry, result |-> result]>> \o hist

\* history after addToHistory(entry, result)
addToHistory(hist, entry, result) ==
  LET added == <<[entry |-> entry, result |-> result]>> \o hist
  IN IF Len(added) > HISTORY_SIZE THEN SubSeq(added, 1, Len(added) - 1) ELSE added

-----------------------------------------------------------------------------
(* Errors, messages and their timers *)

\* showError(message) without the setTimeout call
showErrorUntimed(text) ==
  /\ errorDisplay' = [errorDisplay EXCEPT !.textContent = text, !.hidden = FALSE]
  /\ timers' = timers

\* showError(message): the element shows the message and a callback is set
\* that hides it 3000 ms later
showError(text) ==
  /\ errorDisplay' = [errorDisplay EXCEPT !.textContent = text, !.hidden = FALSE]
  /\ timers' = Append(timers, "error")

\* showMessage(message): the same element with another background, hidden and
\* restyled by a callback 2000 ms later
showMessage(text) ==
  /\ errorDisplay' = [textContent |-> text, hidden |-> FALSE, background |-> "#4299e1"]
  /\ timers' = Append(timers, "message")

Without(seq, i) == SubSeq(seq, 1, i - 1) \o SubSeq(seq, i + 1, Len(seq))

\* what the handlers of this section leave alone
fixed == <<isOn, settings, flags, memory, cursorPosition>>

\* The callback of showError runs.  Callbacks run by deadline: every callback
\* set before it has a deadline before its own (3000 ms is the longest delay),
\* so it is the oldest one held.
errorTimeout ==
  /\ timers # <<>> /\ Head(timers) = "error"
  /\ errorDisplay' = [errorDisplay EXCEPT !.hidden = TRUE]
  /\ timers' = Tail(timers)
  /\ UNCHANGED <<fixed, isSecondMode, entryLine, answer, historyIndex, keys>>

\* The callback of showMessage runs: the oldest message callback held; error
\* callbacks set up to 1000 ms before it may still be held.
messageTimeout ==
  \E i \in 1..Len(timers) :
    /\ timers[i] = "message"
    /\ \A j \in 1..(i - 1) : timers[j] = "error"
    /\ errorDisplay' = [errorDisplay EXCEPT !.hidden = TRUE, !.background = ""]
    /\ timers' = Without(timers, i)
    /\ UNCHANGED <<fixed, isSecondMode, entryLine, answer, historyIndex, keys>>

-----------------------------------------------------------------------------
(* Input functions.  Each is given as the entry line it leaves (with...) and *)
(* as the step of the calculator.                                            *)

withNumber(entry, num) ==
  IF Len(entry) >= MAX_DISPLAY_LENGTH THEN entry ELSE Append(entry, num)

insertNumber(num) ==
  /\ entryLine' = withNumber(entryLine, num)
  /\ IF Len(entryLine) >= MAX_DISPLAY_LENGTH THEN showError("Entry too long")
     ELSE UNCHANGED message
  /\ UNCHANGED <<fixed, answer, historyIndex>>

HasDecimal(entry) == \E i \in 1..Len(getCurrentNumber(entry)) : getCurrentNumber(entry)[i] = "."

withDecimal(entry) ==
  IF HasDecimal(entry) THEN entry
  ELSE IF entry = <<>> \/ isOperator(entry[Len(entry)]) THEN entry \o <<"0", ".">>
  ELSE Append(entry, ".")

insertDecimal ==
  /\ entryLine' = withDecimal(entryLine)
  /\ IF HasDecimal(entryLine) THEN showError("Decimal already exists")
     ELSE UNCHANGED message
  /\ UNCHANGED <<fixed, answer, historyIndex>>

withNegative(entry) ==
  IF entry = <<>> THEN <<Minus>>
  ELSE IF Head(entry) = Minus THEN Tail(entry)
  ELSE <<Minus>> \o entry

insertNegative ==
  /\ entryLine' = withNegative(entryLine)
  /\ UNCHANGED <<fixed, answer, historyIndex, message>>

\* operator: the characters of the operator string
withOperator(entry, operator) ==
  IF entry = <<>> /\ operator # <<Minus>> THEN entry
  ELSE IF entry # <<>> /\ isOperator(entry[Len(entry)])
          /\ operator # <<"(">> /\ operator # <<Minus>>
    THEN SubSeq(entry, 1, Len(entry) - 1) \o operator
  ELSE entry \o operator

insertOperator(operator) ==
  /\ entryLine' = withOperator(entryLine, operator)
  /\ UNCHANGED <<fixed, answer, historyIndex, message>>

insertConstant(type) ==
  /\ entryLine' = entryLine \o (IF type = "pi" THEN <<Pi>>
                                ELSE IF type = "e" THEN <<"e">>
                                ELSE IF type = "i" THEN <<"i">>
                                ELSE <<>>)
  /\ UNCHANGED <<fixed, answer, historyIndex, message>>

\* insertVariable(varName) and insertList(listName): name is the characters
insertVariable(name) ==
  /\ entryLine' = entryLine \o name
  /\ UNCHANGED <<fixed, answer, historyIndex, message>>

insertList(name) ==
  /\ entryLine' = entryLine \o name
  /\ UNCHANGED <<fixed, answer, historyIndex, message>>

\* insertAnswer, for an answer whose text the model computes
insertAnswer ==
  /\ HasText(lastAnswer)
  /\ entryLine' = entryLine \o NumberToString(lastAnswer)
  /\ UNCHANGED <<fixed, answer, historyIndex, message>>

\* the entry line that pressing the buttons of ks, one after the other, leaves
\* of entry: a digit, "." (decimal), "(-)" (negative), "^" (power), an
\* operation button, or one of the inserting buttons: "pi" (2nd and x), "e"
\* (2nd and /), "x" (the x variable button) and "y" (2nd and 7)
RECURSIVE Typed(_, _)
Typed(entry, ks) ==
  IF ks = <<>> THEN entry
  ELSE CHOOSE after \in
         { Typed(IF IsDigit(k) THEN withNumber(before, k)
                 ELSE IF k = "." THEN withDecimal(before)
                 ELSE IF k = "(-)" THEN withNegative(before)
                 ELSE IF k = "pi" THEN before \o <<Pi>>
                 ELSE IF k \in {"e", "x", "y"} THEN before \o <<k>>
                 ELSE withOperator(before, <<k>>),
                 rest) :
             before \in {entry}, k \in {Head(ks)}, rest \in {Tail(ks)} } : TRUE

-----------------------------------------------------------------------------
(* Edit, cursor, history and memory functions, called while the calculator *)
(* is on                                                                   *)

clearEntry ==
  /\ entryLine' = <<>>
  /\ resultLine' = <<>>
  /\ UNCHANGED <<fixed, history, lastAnswer, historyIndex, message>>

deleteCharacter ==
  /\ entryLine' = (IF Len(entryLine) > 0 THEN SubSeq(entryLine, 1, Len(entryLine) - 1)
                   ELSE entryLine)
  /\ UNCHANGED <<fixed, answer, historyIndex, message>>

toggleInsertMode ==
  /\ isInsertMode' = ~isInsertMode
  /\ showMessage(IF isInsertMode' THEN "Insert mode ON" ELSE "Overwrite mode")
  /\ UNCHANGED <<isOn, settings, isAlphaMode, isInStatMode, memory, place,
                 entryLine, answer>>

\* the cursor position after moveCursor(direction) on an entry of length len
CursorMoved(position, direction, len) ==
  IF position + direction >= 0 /\ position + direction <= len
    THEN position + direction
  ELSE position

moveCursor(direction) ==
  /\ cursorPosition' = CursorMoved(cursorPosition, direction, Len(entryLine))
  /\ UNCHANGED <<isOn, settings, flags, memory, historyIndex, entryLine, answer,
                 message>>

\* the same without the branch of the down arrow at index 0
IndexMovedNoReturn(index, direction, hist) ==
  IF direction = -1
    THEN (IF index < Len(hist) - 1 THEN index + 1 ELSE index)
  ELSE IF index > 0 THEN index - 1
  ELSE index

\* state.historyIndex after navigateHistory(direction) on a history that is not
\* empty
IndexMoved(index, direction, hist) ==
  IF direction = -1
    THEN (IF index < Len(hist) - 1 THEN index + 1 ELSE index)
  ELSE IF index >= 0 THEN index - 1
  ELSE index

\* navigateHistory(direction): the entry of the item the index moves to is
\* loaded, the empty entry when the index moves to -1
navigateHistory(direction) ==
  /\ IF history = <<>> \/ IndexMoved(historyIndex, direction, history) = historyIndex
       THEN UNCHANGED <<historyIndex, entryLine>>
     ELSE /\ historyIndex' = IndexMoved(historyIndex, direction, history)
          /\ entryLine' = (IF historyIndex' = -1 THEN <<>>
                           ELSE history[historyIndex' + 1].entry)
  /\ UNCHANGED <<fixed, answer, message>>

\* the value storeValue() stores: parseFloat of the result line when one is
\* shown, parseFloat(state.entryLine) || 0 otherwise
OrZero(value) == IF value.k = "nan" \/ IsZero(value) THEN Zero ELSE value

ValueToStore(entry, result) ==
  CHOOSE value \in
    { IF result # <<>> THEN parsed ELSE OrZero(parsed) :
        parsed \in {ParseFloatText(IF result # <<>> THEN result ELSE entry)} } : TRUE

\* storeValue(): the message is `Stored ${formatNumber(value)} in M`; the text
\* kept is the template, without the numeral
storeValue ==
  /\ memory' = [memory EXCEPT !.M = ValueToStore(entryLine, resultLine)]
  /\ showMessage("Stored ${formatNumber(value)} in M")
  /\ UNCHANGED <<isOn, settings, flags, place, entryLine, answer>>

\* recallValue(), for a stored value whose text the model computes
recallValue ==
  /\ HasText(memory.M)
  /\ entryLine' = entryLine \o NumberToString(memory.M)
  /\ UNCHANGED <<fixed, answer, historyIndex, message>>

-----------------------------------------------------------------------------
(* Calculation and the scientific functions *)

\* evaluateExpression(parseExpression(state.entryLine))
Evaluated == evaluateExpression(parseExpression(entryLine))

\* state.entryLine ? parseFloat(r) : 0 for the evaluation r of the entry, and
\* Thrown when the evaluation throws (only that of a non-empty entry can)
FloatOf(r) ==
  IF entryLine = <<>> THEN Zero ELSE IF r = Thrown THEN Thrown ELSE parseFloat(r)

\* the same with parseInt
IntOf(r) ==
  IF entryLine = <<>> THEN Zero ELSE IF r = Thrown THEN Thrown ELSE parseInt(r)

\* the value the try block of a scientific function reads, or Thrown
FloatValue == FloatOf(Evaluated)
IntValue == IntOf(Evaluated)

\* the result, formatted as text, is shown and stored and the pair goes to the
\* history; the entry is emptied
Kept(entry, result, text) ==
  /\ resultLine' = text
  /\ lastAnswer' = result
  /\ history' = addToHistory(history, entry, text)
  /\ entryLine' = <<>>

\* the statements that end every scientific function
Stored(entry, result) ==
  /\ Kept(entry, result, formatNumber(result, displayMode, fixDecimals))
  /\ UNCHANGED message

\* showError(text) and nothing else (the catch clause, or a return after it)
Refused(text) ==
  /\ showError(text)
  /\ UNCHANGED <<entryLine, answer>>

\* the try block of calculate without state.historyIndex = -1
CalculatedKeepingIndex(result) ==
  IF result = Thrown
    THEN Refused("Syntax error") /\ UNCHANGED historyIndex
  ELSE IF isFinite(result)
    THEN /\ Kept(entryLine, result, formatNumber(result, displayMode, fixDecimals))
         /\ UNCHANGED <<historyIndex, message>>
  ELSE Refused("Invalid calculation") /\ UNCHANGED historyIndex

\* the try block of calculate for the evaluation result of the entry
Calculated(result) ==
  IF result = Thrown
    THEN Refused("Syntax error") /\ UNCHANGED historyIndex
  ELSE IF isFinite(result)
    THEN /\ Kept(entryLine, result, formatNumber(result, displayMode, fixDecimals))
         /\ historyIndex' = -1
         /\ UNCHANGED message
  ELSE Refused("Invalid calculation") /\ UNCHANGED historyIndex

\* calculate that continues from the last answer an entry that starts with an
\* operator
calculateFromAnswer ==
  /\ IF entryLine = <<>> THEN UNCHANGED <<entryLine, answer, historyIndex, message>>
     ELSE IF isOperator(Head(entryLine)) /\ HasText(lastAnswer)
       THEN Calculated(evaluateExpression(parseExpression(
                         NumberToString(lastAnswer) \o entryLine)))
     ELSE Calculated(Evaluated)
  /\ UNCHANGED fixed

\* calculate without the return on an empty entry
calculateUnguarded ==
  /\ Calculated(Evaluated)
  /\ UNCHANGED fixed

calculate ==
  /\ IF entryLine = <<>> THEN UNCHANGED <<entryLine, answer, historyIndex, message>>
     ELSE Calculated(Evaluated)
  /\ UNCHANGED fixed

\* the result of executeTrigFunction for the value read
TrigResult(func, isInverse, value, angleInRadians) ==
  IF isInverse
    THEN convertRadiansToAngle(
           IF func = "sin" THEN MathAsin(value)
           ELSE IF func = "cos" THEN MathAcos(value)
           ELSE MathAtan(value), angleMode)
  ELSE IF func = "sin" THEN MathSin(angleInRadians)
  ELSE IF func = "cos" THEN MathCos(angleInRadians)
  ELSE MathTan(angleInRadians)

\* the try block of executeTrigFunction for the value read
TrigOf(func, isInverse, value) ==
  IF value = Thrown THEN Refused("Invalid input")
  ELSE Stored(entryLine, TrigResult(func, isInverse, value,
                                    convertAngleToRadians(value, angleMode)))

executeTrigFunction(func, isInverse) ==
  /\ TrigOf(func, isInverse, FloatValue)
  /\ UNCHANGED <<fixed, historyIndex>>

\* Math.pow(Math.E, value): e^0 = 1 and no other power of e is computed; it is
\* a finite non-zero double for |value| < 709, Infinity from 710 on and 0 from
\* -746 down
ExpE(value) ==
  IF value.k = "nan" THEN NaN
  ELSE IF IsZero(value) THEN Whole(1)
  ELSE IF value.k = "inf" THEN (IF value.n > 0 THEN Infinity ELSE Zero)
  ELSE IF value.k = "fin" /\ value.tag = ""
    THEN (IF Abs(value.n) \div Abs(value.d) < 709 THEN Real(1, "exp")
          ELSE IF value.n > 0 /\ Abs(value.n) \div Abs(value.d) >= 710 THEN Infinity
          ELSE IF value.n < 0 /\ Abs(value.n) \div Abs(value.d) >= 746 THEN Zero
          ELSE Real(1, "?"))
  ELSE Real(1, "?")

\* the try block of executeLogFunction for the value read
LogOf(func, isInverse, value) ==
  IF value = Thrown THEN Refused("Invalid input")
  ELSE Stored(entryLine,
              IF isInverse
                THEN (IF func = "log" THEN Pow(Whole(10), value) ELSE ExpE(value))
              ELSE MathLog(value, IF func = "log" THEN 10 ELSE 0))

executeLogFunction(func, isInverse) ==
  /\ LogOf(func, isInverse, FloatValue)
  /\ UNCHANGED <<fixed, historyIndex>>

\* the loop of executeFactorial: result *= i for i = from .. value (value is at
\* most 170, so that the product is finite: once it is beyond the exact range
\* the factors left keep it as it is)
RECURSIVE Product(_, _, _)
Product(result, from, value) ==
  IF from > value \/ result.k = "real" THEN result
  ELSE Product(Mul(result, Whole(from)), from + 1, value)

\* the try block of executeFactorial for the value read
FactorialOf(value) ==
  IF value = Thrown THEN Refused("Invalid input")
  ELSE IF Less(value, 0) \/ ~StrictEquals(value, MathFloor(value))
    THEN Refused("Invalid input for factorial")
  ELSE IF Greater(value, 170) THEN Refused("Factorial too large")
  ELSE Stored(entryLine \o <<"!">>, Product(Whole(1), 2, value.n))

executeFactorial ==
  /\ FactorialOf(IntValue)
  /\ UNCHANGED <<fixed, historyIndex>>

\* the try block of executePower for the value read
PowerOf(power, value) ==
  IF value = Thrown THEN Refused("Invalid input")
  ELSE Stored(entryLine \o <<IF power = 2 THEN "U+00B2" ELSE "U+00B3">>,
              Pow(value, Whole(power)))

executePower(power) ==
  /\ PowerOf(power, FloatValue)
  /\ UNCHANGED <<fixed, historyIndex>>

\* executeSquareRoot without its test of the sign
SquareRootUnchecked(value) ==
  IF value = Thrown THEN Refused("Invalid input")
  ELSE Stored(<<"U+221A", "(">> \o entryLine \o <<")">>, MathSqrt(value))

\* the try block of executeSquareRoot for the value read
SquareRootOf(value) ==
  IF value = Thrown THEN Refused("Invalid input")
  ELSE IF Less(value, 0) THEN Refused("Invalid input for square root")
  ELSE Stored(<<"U+221A", "(">> \o entryLine \o <<")">>, MathSqrt(value))

executeSquareRoot ==
  /\ SquareRootOf(FloatValue)
  /\ UNCHANGED <<fixed, historyIndex>>

\* the try block of executeReciprocal for the value read
ReciprocalOf(value) ==
  IF value = Thrown THEN Refused("Invalid input")
  ELSE IF StrictEquals(value, Zero) THEN Refused("Division by zero")
  ELSE Stored(<<"1", "/", "(">> \o entryLine \o <<")">>, Div(Whole(1), value))

executeReciprocal ==
  /\ ReciprocalOf(FloatValue)
  /\ UNCHANGED <<fixed, historyIndex>>

\* the try block of executeAbsolute for the value read
AbsoluteOf(value) ==
  IF value = Thrown THEN Refused("Invalid input")
  ELSE Stored(<<"a", "b", "s", "(">> \o entryLine \o <<")">>, MathAbs(value))

executeAbsolute ==
  /\ AbsoluteOf(FloatValue)
  /\ UNCHANGED <<fixed, historyIndex>>

-----------------------------------------------------------------------------
(* Power, 2nd and reset *)

\* turnOn() that starts with an empty history and the last answer 0
turnOnForgetting ==
  /\ isOn' = TRUE
  /\ history' = <<>>
  /\ lastAnswer' = Zero
  /\ UNCHANGED <<settings, flags, memory, place, entryLine, resultLine, message>>

turnOn ==
  /\ isOn' = TRUE
  /\ UNCHANGED <<settings, flags, memory, place, entryLine, answer, message>>

\* turnOff() without the clearing of the two lines
turnOffKeepingLines ==
  /\ isOn' = FALSE
  /\ isAlphaMode' = FALSE
  /\ UNCHANGED <<settings, isInsertMode, isInStatMode, memory, place, entryLine,
                 answer, message>>

turnOff ==
  /\ isOn' = FALSE
  /\ entryLine' = <<>>
  /\ resultLine' = <<>>
  /\ isAlphaMode' = FALSE
  /\ UNCHANGED <<settings, isInsertMode, isInStatMode, memory, place, history,
                 lastAnswer, message>>

NoMemory == [name \in {"M", "x", "y", "z", "t", "a", "b", "c"} |-> Zero]

\* resetCalculator() whose new state keeps the history index
resetKeepingIndex(confirmed) ==
  IF confirmed
    THEN /\ isOn' = TRUE
         /\ isAlphaMode' = FALSE
         /\ angleMode' = "DEG"
         /\ displayMode' = "NORM"
         /\ fixDecimals' = 2
         /\ entryLine' = <<>>
         /\ resultLine' = <<>>
         /\ history' = <<>>
         /\ memory' = NoMemory
         /\ lastAnswer' = Zero
         /\ cursorPosition' = 0
         /\ isInsertMode' = FALSE
         /\ isInStatMode' = FALSE
         /\ showMessage("Calculator reset")
         /\ UNCHANGED historyIndex
  ELSE UNCHANGED <<fixed, entryLine, answer, historyIndex, message>>

\* resetCalculator(): confirmed is the answer to confirm(...)
resetCalculator(confirmed) ==
  IF confirmed
    THEN /\ isOn' = TRUE
         /\ isAlphaMode' = FALSE
         /\ angleMode' = "DEG"
         /\ displayMode' = "NORM"
         /\ fixDecimals' = 2
         /\ entryLine' = <<>>
         /\ resultLine' = <<>>
         /\ history' = <<>>
         /\ memory' = NoMemory
         /\ lastAnswer' = Zero
         /\ cursorPosition' = 0
         /\ isInsertMode' = FALSE
         /\ historyIndex' = -1
         /\ isInStatMode' = FALSE
         /\ showMessage("Calculator reset")
  ELSE UNCHANGED <<fixed, entryLine, answer, historyIndex, message>>

toggleStatMode ==
  /\ isInStatMode' = ~isInStatMode
  /\ showMessage(IF isInStatMode' THEN "STAT mode ON" ELSE "STAT mode OFF")
  /\ UNCHANGED <<isOn, settings, isAlphaMode, isInsertMode, memory, place,
                 entryLine, answer>>

\* a handler that only shows a message
Notice(text) ==
  /\ showMessage(text)
  /\ UNCHANGED <<fixed, entryLine, answer, historyIndex>>

\* every button handler counts its press; none but the ON button does anything
\* while the calculator is off
Press == keys < MaxKeys /\ keys' = keys + 1

\* if (!state.isOn) return;
Ignored == UNCHANGED <<fixed, isSecondMode, entryLine, answer, historyIndex, message>>

-----------------------------------------------------------------------------
(* The mode menu: answers to prompt(...) are the characters typed, <<>> for *)
(* an empty answer; a cancelled prompt answers null                         *)

numFormats == <<"NORM", "FIX", "SCI", "ENG">>
angleModes == <<"DEG", "RAD", "GRAD">>

\* the answers given to the menus, and to the prompt for the decimal places
MenuAnswers == {<<"1">>, <<"2">>, <<"3">>, <<"4">>, <<"0">>, <<>>}
DecimalAnswers == {<<"0">>, <<"2">>, <<"3">>, <<"1", "2">>, <<"-", "1">>, <<"a">>}

\* reply && names[parseInt(reply)] for the reply to a menu and the names listed
\* after "": the name chosen, and "" when the test fails
ChosenAt(names, index) ==
  IF index.k = "fin" /\ index.d = 1 /\ index.n \in 1..Len(names)
    THEN names[index.n] ELSE ""

Chosen(names, reply) ==
  IF reply = <<>> THEN "" ELSE ChosenAt(names, ParseIntText(reply))

\* Math.max(0, Math.min(9, count || 2)) for the number count
ClampedDecimals(count) ==
  IF count.k = "nan" \/ IsZero(count) THEN 2
  ELSE IF Less(count, 0) THEN 0
  ELSE IF Greater(count, 9) THEN 9
  ELSE count.n

\* formatNumber(parseFloat(result)) for a result line that is not empty
Reformatted(result, mode, decimals) ==
  IF result = <<>> THEN result
  ELSE formatNumber(ParseFloatText(result), mode, decimals)

\* setDisplayMode(mode), called while the calculator is on, when the prompt for
\* the decimal places (shown for FIX) is cancelled or answered with decimals
setDisplayModeWith(mode, cancelled, decimals) ==
  /\ displayMode' = mode
  /\ fixDecimals' = IF mode = "FIX" /\ ~cancelled
                      THEN ClampedDecimals(ParseIntText(decimals))
                    ELSE fixDecimals
  /\ resultLine' = Reformatted(resultLine, mode, fixDecimals')
  /\ UNCHANGED <<isOn, angleMode, flags, memory, place, entryLine, history,
                 lastAnswer, message>>

setDisplayMode(mode) ==
  \E cancelled \in (IF mode = "FIX" THEN BOOLEAN ELSE {TRUE}) :
    \E decimals \in (IF cancelled THEN {<<>>} ELSE DecimalAnswers) :
      setDisplayModeWith(mode, cancelled, decimals)

setAngleMode(mode) ==
  /\ angleMode' = mode
  /\ UNCHANGED <<isOn, displayMode, fixDecimals, flags, memory, place, entryLine,
                 answer, message>>

showAngleMenu ==
  \E angle \in MenuAnswers :
    IF Chosen(angleModes, angle) # "" THEN setAngleMode(Chosen(angleModes, angle))
    ELSE UNCHANGED <<fixed, entryLine, answer, historyIndex, message>>

openModeMenu ==
  \E mode \in {<<"1">>, <<"2">>, <<>>} :
    IF mode = <<"1">>
      THEN \E numFormat \in MenuAnswers :
             IF Chosen(numFormats, numFormat) # ""
               THEN setDisplayMode(Chosen(numFormats, numFormat))
             ELSE UNCHANGED <<fixed, entryLine, answer, historyIndex, message>>
    ELSE IF mode = <<"2">> THEN showAngleMenu
    ELSE UNCHANGED <<fixed, entryLine, answer, historyIndex, message>>

quitCurrentMode ==
  /\ isInStatMode' = FALSE
  /\ isAlphaMode' = FALSE
  /\ showMessage("Quit to home")
  /\ UNCHANGED <<isOn, settings, isInsertMode, memory, place, entryLine, answer>>

-----------------------------------------------------------------------------
(* Button handlers *)

handleOnButton ==
  /\ Press
  /\ IF ~isOn THEN turnOn /\ UNCHANGED isSecondMode
     ELSE IF isSecondMode THEN turnOff /\ isSecondMode' = FALSE
     ELSE UNCHANGED <<fixed, isSecondMode, entryLine, answer, historyIndex, message>>

toggleSecondMode ==
  /\ Press
  /\ IF isOn
       THEN /\ isSecondMode' = ~isSecondMode
            /\ UNCHANGED <<fixed, entryLine, answer, historyIndex, message>>
     ELSE Ignored

handleNumberButton(num) ==
  /\ Press
  /\ IF isOn
       THEN /\ isSecondMode' = FALSE
            /\ IF isSecondMode
                 THEN IF num = "0" THEN \E confirmed \in BOOLEAN : resetCalculator(confirmed)
                      ELSE IF num = "1" THEN insertList(<<"L", "4">>)
                      ELSE IF num = "2" THEN insertList(<<"L", "5">>)
                      ELSE IF num = "3" THEN insertList(<<"L", "6">>)
                      ELSE IF num = "4" THEN insertList(<<"L", "1">>)
                      ELSE IF num = "5" THEN insertList(<<"L", "2">>)
                      ELSE IF num = "6" THEN insertList(<<"L", "3">>)
                      ELSE IF num = "7" THEN insertVariable(<<"y">>)
                      ELSE IF num = "8" THEN Notice("Table function not implemented")
                      ELSE Notice("Graph function not available")
               ELSE insertNumber(num)
     ELSE Ignored

\* handleTrigButton(func) that resets 2nd mode only after a result was recorded
handleTrigButtonKeeping2nd(func) ==
  /\ Press
  /\ IF isOn
       THEN /\ executeTrigFunction(func, isSecondMode)
            /\ isSecondMode' = (isSecondMode /\ entryLine' = entryLine)
     ELSE Ignored

handleTrigButton(func) ==
  /\ Press
  /\ IF isOn
       THEN /\ isSecondMode' = FALSE
            /\ executeTrigFunction(func, isSecondMode)
     ELSE Ignored

handleLogButton(func) ==
  /\ Press
  /\ IF isOn
       THEN /\ isSecondMode' = FALSE
            /\ executeLogFunction(func, isSecondMode)
     ELSE Ignored

handleSquareButton ==
  /\ Press
  /\ IF isOn
       THEN /\ isSecondMode' = FALSE
            /\ IF isSecondMode THEN executeSquareRoot ELSE executePower(2)
     ELSE Ignored

handlePowerButton ==
  /\ Press
  /\ IF isOn
       THEN /\ isSecondMode' = FALSE
            /\ IF isSecondMode THEN insertOperator(<<"U+02E3", "U+221A">>)
               ELSE insertOperator(<<"^">>)
     ELSE Ignored

handleXInverseButton ==
  /\ Press
  /\ IF isOn
       THEN /\ isSecondMode' = FALSE
            /\ IF isSecondMode THEN executeAbsolute ELSE executeReciprocal
     ELSE Ignored

handleOperationButton(op) ==
  /\ Press
  /\ IF isOn
       THEN /\ isSecondMode' = FALSE
            /\ IF isSecondMode
                 THEN IF op = Divide THEN insertConstant("e")
                      ELSE IF op = Times THEN insertConstant("pi")
                      ELSE IF op = Minus THEN insertAnswer
                      ELSE Notice("Entry function not implemented")
               ELSE insertOperator(<<op>>)
     ELSE Ignored

handleEnterButton ==
  /\ Press
  /\ IF isOn
       THEN /\ isSecondMode' = FALSE
            /\ IF isSecondMode THEN Notice("Solve function not implemented") ELSE calculate
     ELSE Ignored

handleDecimalButton ==
  /\ Press
  /\ IF isOn
       THEN /\ isSecondMode' = FALSE
            /\ IF isSecondMode THEN insertConstant("i") ELSE insertDecimal
     ELSE Ignored

handleNegativeButton ==
  /\ Press
  /\ IF isOn
       THEN /\ isSecondMode' = FALSE
            /\ IF isSecondMode THEN executeFactorial ELSE insertNegative
     ELSE Ignored

handleModeButton ==
  /\ Press
  /\ IF isOn
       THEN /\ isSecondMode' = FALSE
            /\ IF isSecondMode THEN quitCurrentMode ELSE openModeMenu
     ELSE Ignored

handleXVarButton ==
  /\ Press
  /\ IF isOn
       THEN /\ isSecondMode' = FALSE
            /\ IF isSecondMode THEN showAngleMenu ELSE insertVariable(<<"x">>)
     ELSE Ignored

toggleAlphaMode ==
  /\ Press
  /\ IF isOn
       THEN /\ isAlphaMode' = ~isAlphaMode
            /\ showMessage(IF isAlphaMode' THEN "Alpha mode ON" ELSE "Alpha mode OFF")
            /\ UNCHANGED <<isOn, isSecondMode, settings, isInsertMode, isInStatMode,
                           memory, place, entryLine, answer>>
     ELSE Ignored

\* the listeners of the arrow buttons and of the CLEAR button
ArrowButtons == {"upBtn", "downBtn", "leftBtn", "rightBtn"}

arrowClick(btn) ==
  /\ Press
  /\ IF isOn
       THEN /\ UNCHANGED isSecondMode
            /\ IF btn = "upBtn" THEN navigateHistory(-1)
               ELSE IF btn = "downBtn" THEN navigateHistory(1)
               ELSE IF btn = "leftBtn" THEN moveCursor(-1)
               ELSE moveCursor(1)
     ELSE Ignored

clearClick ==
  /\ Press
  /\ IF isOn THEN clearEntry /\ UNCHANGED isSecondMode ELSE Ignored

handleDeleteButton ==
  /\ Press
  /\ IF isOn
       THEN /\ isSecondMode' = FALSE
            /\ IF isSecondMode THEN toggleInsertMode ELSE deleteCharacter
     ELSE Ignored

handleStoButton ==
  /\ Press
  /\ IF isOn
       THEN /\ isSecondMode' = FALSE
            /\ IF isSecondMode THEN recallValue ELSE storeValue
     ELSE Ignored

handleStatButton ==
  /\ Press
  /\ IF isOn
       THEN /\ isSecondMode' = FALSE
            /\ IF isSecondMode THEN Notice("Statistics menu not implemented")
               ELSE toggleStatMode
     ELSE Ignored

handleDataButton ==
  /\ Press
  /\ IF isOn
       THEN /\ isSecondMode' = FALSE
            /\ IF isSecondMode THEN insertOperator(<<"[">>)
               ELSE Notice("Data editor not implemented")
     ELSE Ignored

handleMathButton ==
  /\ Press
  /\ IF isOn
       THEN /\ isSecondMode' = FALSE
            /\ IF isSecondMode THEN Notice("Test menu not implemented")
               ELSE Notice("Math menu not implemented")
     ELSE Ignored

handleAppsButton ==
  /\ Press
  /\ IF isOn
       THEN /\ isSecondMode' = FALSE
            /\ IF isSecondMode THEN Notice("Character menu not implemented")
               ELSE Notice("Apps menu not implemented")
     ELSE Ignored

\* the keys of the keyboard pressed: some calculator keys and one other key
Keys ==
  {"7", ".", "+", "-", "*", "/", "^", "Enter", "=", "Backspace", "Escape",
   "ArrowLeft", "ArrowRight", "ArrowUp", "ArrowDown", "a"}

\* handleKeyPress(event) for event.key = key, the help panel closed: every
\* handler called returns at once while the calculator is off, as it does
handleKeyPress(key) ==
  IF IsDigit(key) THEN handleNumberButton(key)
  ELSE IF key = "." THEN handleDecimalButton
  ELSE IF key \in {"+", "-", "*", "/"}
    THEN handleOperationButton(IF key = "+" THEN "+"
                               ELSE IF key = "-" THEN Minus
                               ELSE IF key = "*" THEN Times
                               ELSE Divide)
  ELSE IF key = "^" THEN handlePowerButton
  ELSE IF key \in {"Enter", "="} THEN handleEnterButton
  ELSE IF key \in {"Backspace", "Delete"} THEN handleDeleteButton
  ELSE IF key = "Escape" THEN clearClick
  ELSE IF key \in {"ArrowLeft", "ArrowRight", "ArrowUp", "ArrowDown"}
    THEN arrowClick(IF key = "ArrowLeft" THEN "leftBtn"
                    ELSE IF key = "ArrowRight" THEN "rightBtn"
                    ELSE IF key = "ArrowUp" THEN "upBtn"
                    ELSE "downBtn")
  ELSE Press /\ Ignored

-----------------------------------------------------------------------------
(* The specification *)

\* Entries typed on the calculator as init() leaves it, by the buttons named:
\* the starting points of the behaviours, besides the empty entry
TypedEntries ==
  { Typed(<<>>, ks) : ks \in
      { <<>>,
        <<"2", "+", "3", Times, "4">>,
        <<"2", "^", "3", "^", "2">>,
        <<"0", "1", "0", "+", "1">>,
        <<"2", Minus, Minus, "3">>,
        <<"5", Divide, "0">>,
        <<"0", Divide, "0">>,
        <<"(-)", "2">>,
        <<"(-)", "0", ".", "5">>,
        <<"2", ".", "5">>,
        <<"0", ".", "5">>,
        <<"5">>,
        <<"1", "7", "0">>,
        <<"1", "7", "1">>,
        <<"1", "7", "0", ".", "5">>,
        <<"2", "pi">>,
        <<"2", "e">>,
        <<"x">>,
        <<"0">>,
        <<"9", "9", "9", ".", "9", "9", "9">>,
        <<"(-)", "0", ".", "0", "0", "1">>,
        <<"1", "+", "1", "+", "1", "+", "1", "+", "1", "+", "1", "+", "1", "+", "1", "1">>,
        <<"0", "1", "0">> } }

\* What a session of presses leaves behind besides the entry: the three
\* settings and the answer.  Fresh is the one init() leaves.
Fresh ==
  [isOn |-> TRUE, angleMode |-> "DEG", displayMode |-> "NORM", fixDecimals |-> 2,
   resultLine |-> <<>>, history |-> <<>>, lastAnswer |-> Zero, historyIndex |-> -1]

\* the session after calculate() recorded the finite result of entry (the
\* session, the result and its text are each bound to their value once)
Recorded(s, entry, result) ==
  CHOOSE after \in
    UNION { { [before EXCEPT !.resultLine = text,
                             !.lastAnswer = r,
                             !.historyIndex = -1,
                             !.history = addToHistory(before.history, entry, text)] :
                text \in {formatNumber(r, before.displayMode, before.fixDecimals)} } :
            before \in {s}, r \in {result} } : TRUE

\* the session after the entries were typed and entered one after the other
RECURSIVE Entered(_, _)
Entered(s, entries) ==
  IF entries = <<>> THEN s
  ELSE Entered(Recorded(s, Head(entries), evaluateExpression(parseExpression(Head(entries)))),
               Tail(entries))

\* the session after FIX was chosen in the mode menu with the reply decimals
Selected(s, mode, decimals) ==
  [s EXCEPT !.displayMode = mode,
            !.fixDecimals = ClampedDecimals(ParseIntText(decimals)),
            !.resultLine = Reformatted(s.resultLine, mode,
                                       ClampedDecimals(ParseIntText(decimals)))]

\* eight calculations fill the history
EightEntries == <<<<"1">>, <<"2">>, <<"3">>, <<"4">>, <<"5">>, <<"6">>, <<"7">>, <<"8">>>>

\* the session after the up arrow was pressed k times
RECURSIVE Navigated(_, _)
Navigated(s, k) ==
  IF k = 0 THEN s
  ELSE CHOOSE after \in
         { Navigated([before EXCEPT !.historyIndex =
                        IndexMoved(before.historyIndex, -1, before.history)], k - 1) :
             before \in {s} } : TRUE

\* the session after 2nd and ON switched the calculator off
SwitchedOff(s) == [s EXCEPT !.isOn = FALSE, !.resultLine = <<>>]

\* an entry whose value String() writes with an exponent: 1.5e-7
SmallEntry == Typed(<<>>, <<"0", ".", "0", "0", "0", "0", "0", "0", "1", "5">>)

Sessions ==
  {Fresh, Entered(Fresh, EightEntries), Selected(Fresh, "FIX", <<"2">>),
   Navigated(Entered(Fresh, EightEntries), 1),
   Navigated(Entered(Fresh, EightEntries), 7),
   SwitchedOff(Entered(Fresh, <<<<"5">>>>)),
   Entered(Fresh, <<SmallEntry>>)}

\* the entries typed after a session that pressed keys before
LaterEntries ==
  { Typed(<<>>, ks) : ks \in
      { <<>>,
        <<"5">>,
        <<"2", "+", "3", Times, "4">>,
        <<"(-)", "0", ".", "0", "0", "1">> } }

\* the entries a session leaves or has typed after it: the entry loaded by the
\* arrows, the empty one of a calculator switched off, any typed entry on the
\* fresh calculator, the answer that 2nd and minus insert after a small result
EntriesAfter(s) ==
  IF s = Fresh THEN TypedEntries
  ELSE IF ~s.isOn THEN {<<>>}
  ELSE IF s.historyIndex >= 0 THEN {s.history[s.historyIndex + 1].entry}
  ELSE IF HasExponentForm(s.lastAnswer) THEN {<<>>, NumberToString(s.lastAnswer)}
  ELSE LaterEntries

\* init(): the state object as declared, switched on by turnOn(); the error
\* display is hidden until a message is shown.  The behaviours start there or
\* after one of the sessions, with an entry typed
Init ==
  /\ isSecondMode = FALSE
  /\ isAlphaMode = FALSE
  /\ \E s \in Sessions :
       /\ isOn = s.isOn
       /\ angleMode = s.angleMode
       /\ displayMode = s.displayMode
       /\ fixDecimals = s.fixDecimals
       /\ resultLine = s.resultLine
       /\ history = s.history
       /\ lastAnswer = s.lastAnswer
       /\ historyIndex = s.historyIndex
       /\ entryLine \in EntriesAfter(s)
  /\ memory = NoMemory
  /\ cursorPosition = 0
  /\ isInsertMode = FALSE
  /\ isInStatMode = FALSE
  /\ errorDisplay = [textContent |-> "", hidden |-> TRUE, background |-> ""]
  /\ timers = <<>>
  /\ keys = 0

Next ==
  \/ handleOnButton
  \/ toggleSecondMode
  \/ \E num \in NumberKeys : handleNumberButton(num)
  \/ \E func \in TrigFunctions : handleTrigButton(func)
  \/ \E func \in LogFunctions : handleLogButton(func)
  \/ handleSquareButton
  \/ handlePowerButton
  \/ handleXInverseButton
  \/ \E op \in OperationKeys : handleOperationButton(op)
  \/ handleEnterButton
  \/ handleDecimalButton
  \/ handleNegativeButton
  \/ handleModeButton
  \/ handleXVarButton
  \/ toggleAlphaMode
  \/ \E btn \in ArrowButtons : arrowClick(btn)
  \/ clearClick
  \/ handleDeleteButton
  \/ handleStoButton
  \/ handleStatButton
  \/ handleDataButton
  \/ handleMathButton
  \/ handleAppsButton
  \/ \E key \in Keys : handleKeyPress(key)
  \/ errorTimeout
  \/ messageTimeout

Spec == Init /\ [][Next]_vars

\* The callbacks set by setTimeout are run by the event loop once their delay
\* has elapsed, whatever the user does: a callback that is held is run.
FairSpec == Spec /\ WF_vars(errorTimeout) /\ WF_vars(messageTimeout)

-----------------------------------------------------------------------------
(* Properties *)

\* showError is called in the step
ErrorShown == timers' = Append(timers, "error")

\* the step shows the error text and records no result
FailsWith(text) ==
  /\ ErrorShown
  /\ errorDisplay'.textContent = text
  /\ UNCHANGED <<resultLine, lastAnswer, history>>

\* the step shows an error and records no result
Fails == ErrorShown /\ UNCHANGED <<resultLine, lastAnswer, history>>

\* the steps that evaluate the entry: calculate and the one-key functions
Evaluating ==
  \/ handleEnterButton /\ ~isSecondMode
  \/ \E func \in TrigFunctions : handleTrigButton(func)
  \/ \E func \in LogFunctions : handleLogButton(func)
  \/ handleSquareButton
  \/ handleXInverseButton
  \/ handleNegativeButton /\ isSecondMode

\* the index of the last character of entry[1..i] that is in ops, 0 if none
RECURSIVE LastOf(_, _, _)
LastOf(entry, i, ops) ==
  IF i = 0 THEN 0 ELSE IF entry[i] \in ops THEN i ELSE LastOf(entry, i - 1, ops)

\* the decimal value of a digit string, read from the left
RECURSIVE Decimal(_, _)
Decimal(ds, acc) ==
  IF ds = <<>> THEN acc
  ELSE IF acc > 9999999 THEN IntLimit
  ELSE Decimal(Tail(ds), 10 * acc + DigitVal(Head(ds)))

\* entry is digit strings joined by single operators of ops
RECURSIVE IsJoined(_, _, _)
IsJoined(entry, ops, afterDigit) ==
  IF entry = <<>> THEN afterDigit
  ELSE IF IsDigit(Head(entry)) THEN IsJoined(Tail(entry), ops, TRUE)
  ELSE Head(entry) \in ops /\ afterDigit /\ IsJoined(Tail(entry), ops, FALSE)

\* the operands l and r under the operator op, by the rules of arithmetic
Conventionally(op, l, r) ==
  IF op = "+" THEN Add(l, r)
  ELSE IF op = Minus THEN Sub(l, r)
  ELSE IF op = Times THEN Mul(l, r)
  ELSE IF op = Divide THEN Div(l, r)
  ELSE Pow(l, r)

\* the value of an entry of digit strings joined by + - x / under conventional
\* precedence: it is split at its last additive operator, or else at its last
\* multiplicative one (grouping left to right)
RECURSIVE Conventional(_)
SplitAt(entry, i) ==
  Conventionally(entry[i], Conventional(SubSeq(entry, 1, i - 1)),
                 Conventional(SubSeq(entry, i + 1, Len(entry))))
SplitAtLast(entry, additive, multiplicative) ==
  IF additive > 0 THEN SplitAt(entry, additive)
  ELSE IF multiplicative > 0 THEN SplitAt(entry, multiplicative)
  ELSE Whole(Decimal(entry, 0))
Conventional(entry) ==
  SplitAtLast(entry, LastOf(entry, Len(entry), {"+", Minus}),
              LastOf(entry, Len(entry), {Times, Divide}))

\* the step records the number v as the answer
Yields(v) == v.k = "fin" => lastAnswer' = v

\* C1: calculate on an entry of integer literals joined by + - x / records the
\* value that conventional precedence gives the entry, whenever that value is
\* a number.
C1_ConventionalPrecedence ==
  [][(handleEnterButton /\ ~isSecondMode
        /\ IsJoined(entryLine, OperationKeys, FALSE))
       => Yields(Conventional(entryLine))]_vars

\* the index of the first character of entry[i..] that is in ops, 0 if none
RECURSIVE FirstOf(_, _, _)
FirstOf(entry, i, ops) ==
  IF i > Len(entry) THEN 0
  ELSE IF entry[i] \in ops THEN i ELSE FirstOf(entry, i + 1, ops)

\* the value of digit strings joined by ^, grouped from the right: the entry
\* is split at its first ^
RECURSIVE RightAssociative(_)
RaisedAt(entry, i) ==
  IF i = 0 THEN Whole(Decimal(entry, 0))
  ELSE Pow(Whole(Decimal(SubSeq(entry, 1, i - 1), 0)),
           RightAssociative(SubSeq(entry, i + 1, Len(entry))))
RightAssociative(entry) == RaisedAt(entry, FirstOf(entry, 1, {"^"}))

\* C2: calculate on an entry of digit strings joined by ^ records the power
\* grouped from the right, a^(b^c), whenever that value is a number.
C2_PowerRightAssociative ==
  [][(handleEnterButton /\ ~isSecondMode
        /\ IsJoined(entryLine, {"^"}, FALSE)
        /\ FirstOf(entryLine, 1, {"^"}) > 0)
       => Yields(RightAssociative(entryLine))]_vars

\* the step reports an error: by showError, or by the result Error
ErrorReported == ErrorShown \/ resultLine' = <<"E", "r", "r", "o", "r">>

\* C3: an evaluating step that reports an error leaves entryLine, resultLine,
\* lastAnswer and history as they were.
C3_ErrorPreservesState ==
  [][(Evaluating /\ ErrorReported)
       => UNCHANGED <<entryLine, resultLine, lastAnswer, history>>]_vars

\* the number written at entry[i..], up to the next operator, is a zero
RECURSIVE ZeroLiteral(_, _, _)
ZeroLiteral(entry, i, seen) ==
  IF i > Len(entry) THEN seen
  ELSE IF isOperator(entry[i]) THEN seen
  ELSE IF entry[i] \in {"0", "."} THEN ZeroLiteral(entry, i + 1, seen \/ entry[i] = "0")
  ELSE FALSE

\* the entry divides by a zero
DividesByZero(entry) ==
  \E i \in 1..Len(entry) : entry[i] = Divide /\ ZeroLiteral(entry, i + 1, FALSE)

\* the step fails with an error that is no syntax error
FailsOtherwise == Fails /\ errorDisplay'.textContent # "Syntax error"

\* the reciprocal of the value read fails when the value is zero
ReciprocalFails(value) == IsZero(value) => FailsOtherwise

\* C4: a step that evaluates an entry dividing by zero, and the reciprocal of
\* zero, fail with an error that is no syntax error and record no result in
\* resultLine, lastAnswer or history.
C4_DivisionByZeroFails ==
  [][/\ (Evaluating /\ DividesByZero(entryLine)) => FailsOtherwise
     /\ (handleXInverseButton /\ ~isSecondMode) => ReciprocalFails(FloatValue)]_vars

\* C5: lastAnswer is a finite number in every state.
C5_LastAnswerFinite == isFinite(lastAnswer)

\* what inverse sine and cosine do for the value read: an error beyond
\* [-1, 1], and within it the angle in the active unit
InverseTrig(func, value) ==
  IF value = Thrown THEN TRUE
  ELSE IF MagnitudeAboveOne(value) THEN Fails
  ELSE lastAnswer' = convertRadiansToAngle(IF func = "sin" THEN MathAsin(value)
                                           ELSE MathAcos(value), angleMode)

\* C6: 2nd + sin and 2nd + cos fail for an operand of absolute value above 1
\* and record no result; within [-1, 1] the result is the angle converted from
\* radians to the active unit.
C6_InverseTrigDomain ==
  [][\A func \in {"sin", "cos"} :
       (handleTrigButton(func) /\ isSecondMode) => InverseTrig(func, FloatValue)]_vars

\* log and ln of the value read fail when it is zero or negative
LogFails(value) == (IsZero(value) \/ Less(value, 0)) => Fails

\* C7: log and ln fail for an operand that is zero or negative and record no
\* result.
C7_LogDomain ==
  [][((\E func \in LogFunctions : handleLogButton(func)) /\ ~isSecondMode)
       => LogFails(FloatValue)]_vars

\* the square root of the value read fails when it is negative and changes
\* nothing but the error display
SquareRootFails(value) ==
  Less(value, 0) =>
    /\ ErrorShown
    /\ ~errorDisplay'.hidden
    /\ UNCHANGED <<entryLine, resultLine, lastAnswer, history>>

\* C8: the square root (2nd + square) of a negative operand shows an error and
\* leaves entryLine, resultLine, lastAnswer and history unchanged.
C8_SquareRootDomain ==
  [][(handleSquareButton /\ isSecondMode) => SquareRootFails(FloatValue)]_vars

\* the square root of -2 was refused
C8_Witness ==
  /\ entryLine = <<Minus, "2">>
  /\ errorDisplay = [textContent |-> "Invalid input for square root",
                     hidden |-> FALSE, background |-> ""]
  /\ resultLine = <<>> /\ history = <<>> /\ lastAnswer = Zero

\* the factorial of the value read: an error above 170, the product for an
\* integer from 0 to 170
FactorialIs(value) ==
  IF Greater(value, 170) THEN Fails
  ELSE IF IsInteger(value) /\ ~Less(value, 0)
    THEN lastAnswer' = Product(Whole(1), 2, value.n)
  ELSE TRUE

\* C9: factorial (2nd + negative) of an integer n from 0 to 170 records the
\* product 1*2*...*n, and of an operand above 170 fails and records no result.
C9_FactorialRange ==
  [][(handleNegativeButton /\ isSecondMode) => FactorialIs(FloatValue)]_vars

\* the factorial of the value read fails when it is negative or no integer
FactorialFails(value) ==
  (value.k = "fin" /\ (Less(value, 0) \/ ~IsInteger(value))) => Fails

\* C10: factorial fails for an operand that is negative or not an integer and
\* records no result.
C10_FactorialDomain ==
  [][(handleNegativeButton /\ isSecondMode) => FactorialFails(FloatValue)]_vars

\* two operands are adjacent in the entry: a digit and then the constant pi
\* or e
AdjacentOperands(entry) ==
  \E i \in 1..(Len(entry) - 1) : IsDigit(entry[i]) /\ entry[i + 1] \in {Pi, "e"}

\* C11: calculate on an entry in which a digit string is immediately followed
\* by the constant pi or e fails with a syntax error and records no result.
C11_AdjacentOperandsFail ==
  [][(handleEnterButton /\ ~isSecondMode /\ AdjacentOperands(entryLine))
       => FailsWith("Syntax error")]_vars

\* the symbols of an entry that are no part of an expression: the variables,
\* the imaginary unit, the letter of the list names and the blank
Unrecognized == {"x", "y", "z", "t", "a", "b", "c", "i", "L", " "}

OnlyUnrecognized(entry) ==
  entry # <<>> /\ \A i \in 1..Len(entry) : entry[i] \in Unrecognized

\* the step records the result zero and shows no error
ZeroResult ==
  /\ IsZero(lastAnswer')
  /\ resultLine' = formatNumber(Zero, displayMode, fixDecimals)
  /\ UNCHANGED message

\* C12: a step that evaluates a non-empty entry of unrecognized symbols only
\* records the zero result or fails with a syntax error.
C12_UnrecognizedOnly ==
  [][(Evaluating /\ OnlyUnrecognized(entryLine))
       => (ZeroResult \/ FailsWith("Syntax error"))]_vars

\* ENTER without 2nd on an empty entry: calculate is called with it
EmptyEntered == handleEnterButton /\ ~isSecondMode /\ entryLine = <<>>

\* the result 0 is produced: shown, stored and put in the history
ZeroProduced ==
  /\ resultLine' = formatNumber(Zero, displayMode, fixDecimals)
  /\ IsZero(lastAnswer')
  /\ history' = addToHistory(history, entryLine, resultLine')

PushedInFront(item) ==
  /\ history' # <<>> /\ Head(history') = item
  /\ Tail(history') = (IF Len(history) < HISTORY_SIZE THEN history
                       ELSE SubSeq(history, 1, HISTORY_SIZE - 1))

\* calculate is called with an entry and shows no error: the evaluation
\* succeeded
Succeeds == handleEnterButton /\ ~isSecondMode /\ entryLine # <<>> /\ ~ErrorShown

\* C14: the history holds at most 8 items; every successful evaluation puts
\* its (entry, result) pair in front; a step that changes the history puts one
\* item in front of the others, which keep their order, and drops the oldest
\* when it is the ninth (or, on reset, empties the history).
C14_HistoryBounded ==
  /\ [](Len(history) <= HISTORY_SIZE)
  /\ [][Succeeds => PushedInFront([entry |-> entryLine, result |-> resultLine'])]_vars
  /\ [][history' = history \/ history' = <<>> \/ PushedInFront(Head(history'))]_vars

\* a ninth item was added: 5 was entered after 1, ..., 8, and the oldest item
\* kept is the one of 2
C14_Witness ==
  /\ Len(history) = HISTORY_SIZE
  /\ history[1].entry = <<"5">>
  /\ history[2].entry = <<"8">>
  /\ history[HISTORY_SIZE].entry = <<"2">>

\* MODE without 2nd, number format, FIX, and the reply decimals to the prompt
\* for the decimal places
SelectsFix(decimals) ==
  /\ isOn /\ ~isSecondMode /\ Press
  /\ isSecondMode' = FALSE
  /\ setDisplayModeWith("FIX", FALSE, decimals)

\* the reply is a count: digits, possibly after a minus sign
IsCount(decimals) == ParseIntText(decimals).k = "fin"

\* the count d clamped into 0..9
ClampedCount(d) == IF d < 0 THEN 0 ELSE IF d > 9 THEN 9 ELSE d

\* C15: fixDecimals is always an integer in 0..9, and selecting FIX with a
\* requested count d sets fixDecimals to d clamped into 0..9.
C15_FixDecimalsClamped ==
  /\ [](fixDecimals \in 0..9)
  /\ [][\A decimals \in DecimalAnswers :
          (SelectsFix(decimals) /\ IsCount(decimals))
            => fixDecimals' = ClampedCount(ParseIntText(decimals).n)]_vars

\* a result is recorded in the step: formatNumber(result) is shown, the result
\* is the last answer and the history has a new item
ResultRecorded == history' # history /\ history' # <<>>

\* C16: formatNumber renders the value 0 as the literal string "0" in every
\* display mode: a step that records the result 0 shows "0".
C16_ZeroRenderedAsZero ==
  [][(ResultRecorded /\ IsZero(lastAnswer')) => resultLine' = <<"0">>]_vars

\* the place of the exponent mark E in an ENG numeral, 0 when it has none
MarkAt(text) ==
  IF \E i \in 1..Len(text) : text[i] = "E"
    THEN CHOOSE i \in 1..Len(text) : text[i] = "E"
  ELSE 0

\* the mantissa m and the exponent x printed: 1 <= |m| < 1000 and x is
\* 3 * floor(e / 3) for the base-10 exponent e of the value
EngineeringParts(m, x, e) ==
  /\ x.k = "fin" /\ x.n = 3 * (e \div 3)
  /\ Less(m, 1000) /\ Greater(m, -1000)
  /\ ~(Less(m, 1) /\ Greater(m, -1))

WellEngineered(v, text) ==
  /\ MarkAt(text) > 1
  /\ EngineeringParts(ParseFloatText(SubSeq(text, 1, MarkAt(text) - 1)),
                      ParseIntText(SubSeq(text, MarkAt(text) + 1, Len(text))),
                      SigDigits(Abs(v.n), v.d, 1).e)

\* C17: in ENG mode the numeral of a finite non-zero result has the exponent
\* 3 * floor(x / 3) for the base-10 exponent x of the result, and a mantissa,
\* rounded to fixDecimals digits, of magnitude at least 1 and below 1000.
C17_EngineeringNotation ==
  [][(ResultRecorded /\ displayMode = "ENG" /\ lastAnswer'.k = "fin"
        /\ ~IsZero(lastAnswer') /\ Computed(lastAnswer'))
       => WellEngineered(lastAnswer', resultLine')]_vars

ErrorToken == <<"E", "r", "r", "o", "r">>

\* the text reads as a number
IsNumeral(text) == ParseFloatText(text).k # "nan"

\* C18: formatNumber returns "Error" for NaN and for either infinity in every
\* display mode, and a numeric string for every finite value: the text shown
\* by a step that records a result is "Error" when the result is not finite,
\* and reads as a number when it is.
C18_ErrorTokenIffNotFinite ==
  [][ResultRecorded
       => IF isFinite(lastAnswer') THEN IsNumeral(resultLine')
          ELSE resultLine' = ErrorToken]_vars

\* results that are not finite were recorded and shown as Error in a mode
\* other than NORM
C18_Witness ==
  /\ displayMode \in {"FIX", "SCI", "ENG"}
  /\ ~isFinite(lastAnswer)
  /\ resultLine = ErrorToken
  /\ history # <<>> /\ Head(history).result = ErrorToken

\* C19: FIX formatting is idempotent under re-parsing: re-selecting FIX with
\* the same number of decimals leaves resultLine unchanged.
C19_FixIdempotent ==
  [][\A decimals \in DecimalAnswers :
       (SelectsFix(decimals) /\ displayMode = "FIX" /\ fixDecimals' = fixDecimals)
         => resultLine' = resultLine]_vars

\* the outcome of the step is the one that the evaluation r of the entry has
\* under the display mode and the decimals: the result string and the numeric
\* value, or the error
OutcomeIs(r, mode, decimals) ==
  IF r = Thrown THEN FailsWith("Syntax error")
  ELSE IF isFinite(r)
    THEN /\ resultLine' = formatNumber(r, mode, decimals)
         /\ lastAnswer' = r
         /\ ~ErrorShown
  ELSE FailsWith("Invalid calculation")

\* C20: an evaluation by calculate changes none of angleMode, displayMode and
\* fixDecimals, and its outcome is determined by the entry text and these
\* settings alone, whatever the history, the memory and the last answer are.
C20_OutcomeOfEntryAndSettings ==
  [][(handleEnterButton /\ ~isSecondMode /\ entryLine # <<>>)
       => /\ UNCHANGED settings
          /\ OutcomeIs(evaluateExpression(parseExpression(entryLine)),
                       displayMode, fixDecimals)]_vars

\* the entry -0.001 was evaluated after eight calculations, with the last
\* answer 8: the result is the one of the entry alone
C20_Witness ==
  /\ Len(history) = HISTORY_SIZE
  /\ history[1].entry = <<Minus, "0", ".", "0", "0", "1">>
  /\ history[2].entry = <<"8">>
  /\ lastAnswer = Frac(-1, 1000, "")

\* C21: an error message that is shown is eventually hidden again, by the
\* callback alone: whenever the error display is not hidden, it is hidden later.
C21_ErrorEventuallyHidden == (~errorDisplay.hidden) ~> errorDisplay.hidden

\* the syntax error was shown and its callback has hidden it
C21_Witness ==
  /\ errorDisplay.hidden /\ errorDisplay.textContent = "Syntax error"
  /\ timers = <<>> /\ keys > 0

\* the ON button is clicked or a digit key of the keyboard is pressed
OnOrDigitKey ==
  \/ handleOnButton
  \/ \E key \in {k \in Keys : IsDigit(k)} : handleKeyPress(key)

\* C22: when the calculator is off, clicking the ON button or pressing a digit
\* key turns it on.
C22_DigitKeyTurnsOn == [][(~isOn /\ OnOrDigitKey) => isOn']_vars

\* everything is cleared and 2nd mode is switched off
AllCleared ==
  /\ entryLine' = <<>> /\ resultLine' = <<>>
  /\ memory' = NoMemory /\ IsZero(lastAnswer')
  /\ history' = <<>>
  /\ ~isSecondMode'

\* only the entry and the result line are cleared
EntryCleared ==
  /\ entryLine' = <<>> /\ resultLine' = <<>>
  /\ UNCHANGED <<memory, lastAnswer, history>>

\* C23: CLEAR without 2nd clears only entryLine and resultLine; CLEAR while 2nd
\* mode is active empties entryLine, resultLine and the history, resets the
\* memory variables and lastAnswer to 0 and switches 2nd mode off.
C23_ClearAndClearAll ==
  [][(clearClick /\ isOn) => IF isSecondMode THEN AllCleared ELSE EntryCleared]_vars

\* a button other than ON is clicked or a key is pressed
OtherThanOn ==
  \/ toggleSecondMode
  \/ toggleAlphaMode
  \/ \E num \in NumberKeys : handleNumberButton(num)
  \/ \E func \in TrigFunctions : handleTrigButton(func)
  \/ \E func \in LogFunctions : handleLogButton(func)
  \/ \E op \in OperationKeys : handleOperationButton(op)
  \/ \E btn \in ArrowButtons : arrowClick(btn)
  \/ \E key \in Keys : handleKeyPress(key)
  \/ handleSquareButton \/ handlePowerButton \/ handleXInverseButton
  \/ handleEnterButton \/ handleDecimalButton \/ handleNegativeButton
  \/ handleModeButton \/ handleXVarButton \/ clearClick \/ handleDeleteButton
  \/ handleStoButton \/ handleStatButton \/ handleDataButton
  \/ handleMathButton \/ handleAppsButton

\* nothing of the calculator's state changes
StateUnchanged ==
  UNCHANGED <<isOn, isSecondMode, settings, flags, entryLine, answer, memory, place>>

WithSecondary ==
  \/ handleOnButton
  \/ \E num \in NumberKeys : handleNumberButton(num)
  \/ \E func \in TrigFunctions : handleTrigButton(func)
  \/ \E func \in LogFunctions : handleLogButton(func)
  \/ \E op \in OperationKeys : handleOperationButton(op)
  \/ handleSquareButton \/ handlePowerButton \/ handleXInverseButton
  \/ handleEnterButton \/ handleDecimalButton \/ handleNegativeButton
  \/ handleModeButton \/ handleXVarButton \/ handleDeleteButton
  \/ handleStoButton \/ handleStatButton \/ handleDataButton
  \/ handleMathButton \/ handleAppsButton

\* C25: 2nd mode is one-shot: a handler with a secondary function, invoked
\* while the calculator is on and isSecondMode is true, leaves isSecondMode
\* false, whether its secondary function succeeded or not; and only the 2nd
\* button sets isSecondMode to true.
C25_SecondModeOneShot ==
  /\ [][(isOn /\ isSecondMode /\ WithSecondary) => ~isSecondMode']_vars
  /\ [][(~isSecondMode /\ isSecondMode') => toggleSecondMode]_vars

\* the inverse sine of 5 is no number: the secondary function failed (the
\* result is shown as Error) and 2nd mode is off again
C25_Witness ==
  /\ ~isSecondMode /\ keys = 2
  /\ history # <<>>
  /\ Head(history).entry = <<"5">>
  /\ lastAnswer = NaN

\* what switching off and on retains
Retained == UNCHANGED <<memory, history, lastAnswer, settings>>

\* the calculator is switched off: the two lines and the 2nd and alpha flags
\* are cleared
TurnedOff ==
  /\ ~isOn'
  /\ entryLine' = <<>> /\ resultLine' = <<>>
  /\ ~isSecondMode' /\ ~isAlphaMode'
  /\ Retained

\* the calculator is switched on: nothing else changes, so the cleared fields
\* stay cleared
TurnedOn ==
  /\ isOn'
  /\ UNCHANGED <<entryLine, resultLine, isSecondMode, isAlphaMode>>
  /\ Retained

\* C26: ON turns the calculator on when it is off; when it is on, ON switches
\* it off only if 2nd mode is active and otherwise changes nothing.  Switching
\* off clears entryLine, resultLine and the 2nd and alpha flags and retains
\* memory, history, lastAnswer and the three settings; switching on restores
\* none of the cleared fields and changes none of the retained ones.
C26_OnButton ==
  [][handleOnButton
       => IF ~isOn THEN TurnedOn
          ELSE IF isSecondMode THEN TurnedOff
          ELSE StateUnchanged]_vars

\* the calculator switched off after the calculation of 5 is on again: the lines
\* are still empty, the history and the last answer are those of before
C26_Witness ==
  /\ isOn /\ keys = 1
  /\ entryLine = <<>> /\ resultLine = <<>>
  /\ Len(history) = 1 /\ Head(history).result = <<"5">>
  /\ lastAnswer = Whole(5)

\* what calculate does with the finite value v of the entry
FiniteRecorded(v) ==
  /\ lastAnswer' = v
  /\ resultLine' = formatNumber(v, displayMode, fixDecimals)
  /\ history' # <<>>
  /\ Head(history') = [entry |-> entryLine, result |-> resultLine']
  /\ entryLine' = <<>>
  /\ historyIndex' = -1
  /\ UNCHANGED <<memory, settings, isOn>>

RecordedIfFinite(v) == (v # Thrown /\ isFinite(v)) => FiniteRecorded(v)

\* C27: when calculate evaluates a non-empty entry to a finite value v,
\* lastAnswer becomes v, resultLine becomes formatNumber(v), the pair (entry,
\* new resultLine) is at the front of the history, entryLine becomes empty and
\* historyIndex -1; memory, the three settings and the power state are
\* unchanged.
C27_CalculateRecords ==
  [][(handleEnterButton /\ isOn /\ ~isSecondMode /\ entryLine # <<>>)
       => RecordedIfFinite(Evaluated)]_vars

\* the entry 8 was loaded from the history by the up arrow and calculated
\* again: it is in front of the item it was loaded from and historyIndex is -1
C27_Witness ==
  /\ historyIndex = -1 /\ entryLine = <<>>
  /\ Len(history) = HISTORY_SIZE
  /\ history[1] = [entry |-> <<"8">>, result |-> <<"8">>]
  /\ history[2].entry = <<"8">>
  /\ history[3].entry = <<"7">>
  /\ lastAnswer = Whole(8)

\* C28: in every reachable state -1 <= historyIndex <= length(history) - 1.
C28_HistoryIndexInRange ==
  -1 <= historyIndex /\ historyIndex <= Len(history) - 1

\* the up arrow has reached the oldest of eight items
C28_Witness ==
  /\ historyIndex = HISTORY_SIZE - 1 /\ Len(history) = HISTORY_SIZE
  /\ entryLine = <<"1">> /\ keys > 0

\* the item at the index is loaded into the entry line, the empty entry at -1
LoadedAt(index) ==
  /\ historyIndex' = index
  /\ entryLine' = (IF index = -1 THEN <<>> ELSE history[index + 1].entry)

\* the up arrow loads the next older item and does nothing at the oldest one
WalkedUp ==
  IF historyIndex < Len(history) - 1 THEN LoadedAt(historyIndex + 1)
  ELSE UNCHANGED <<historyIndex, entryLine>>

\* the down arrow loads the next more recent item, and from index 0 empties the
\* entry line and returns to -1
WalkedDown ==
  IF historyIndex >= 0 THEN LoadedAt(historyIndex - 1)
  ELSE UNCHANGED <<historyIndex, entryLine>>

\* C29: history navigation walks the history in order: each up arrow loads the
\* next older item (the k-th one from index -1 loads history[k-1].entry) and
\* changes nothing at the oldest item; each down arrow loads the next more
\* recent item, and at index 0 empties entryLine and returns historyIndex to
\* -1.  Navigation never changes history, resultLine, lastAnswer or memory.
C29_NavigationInOrder ==
  /\ [][(arrowClick("upBtn") /\ isOn) => WalkedUp]_vars
  /\ [][(arrowClick("downBtn") /\ isOn) => WalkedDown]_vars
  /\ [][(\E btn \in {"upBtn", "downBtn"} : arrowClick(btn))
          => UNCHANGED <<history, resultLine, lastAnswer, memory>>]_vars

\* the second up arrow in a row has loaded the second item, 7
C29_Witness ==
  /\ historyIndex = 1 /\ entryLine = <<"7">> /\ keys = 1
  /\ Len(history) = HISTORY_SIZE /\ history[1].entry = <<"8">>
  /\ resultLine = <<"8">>

\* C30: in every reachable state 0 <= cursorPosition <= length(entryLine).
C30_CursorInRange ==
  0 <= cursorPosition /\ cursorPosition <= Len(entryLine)

\* a digit is entered: the number button or the digit key, 2nd mode off
DigitEntered ==
  /\ isOn /\ ~isSecondMode
  /\ \E num \in NumberKeys : handleNumberButton(num)

\* C31: a digit entered when entryLine has MAX_DISPLAY_LENGTH = 16 characters
\* or more is rejected with "Entry too long" and leaves entryLine unchanged,
\* and in every reachable state entryLine has at most 16 characters.
C31_EntryCapped ==
  /\ [][(DigitEntered /\ Len(entryLine) >= MAX_DISPLAY_LENGTH)
          => /\ entryLine' = entryLine
             /\ ErrorShown
             /\ errorDisplay'.textContent = "Entry too long"]_vars
  /\ [](Len(entryLine) <= MAX_DISPLAY_LENGTH)

BinaryOperators == {"+", Times, Divide, "^"}

\* no two adjacent characters of entry are binary operators and entry does
\* not start with one
WellPlaced(entry) ==
  /\ entry = <<>> \/ Head(entry) \notin BinaryOperators
  /\ \A i \in 1..(Len(entry) - 1) :
       ~(entry[i] \in BinaryOperators /\ entry[i + 1] \in BinaryOperators)

\* the operator op is entered: its button, 2nd mode off
OperatorEntered(op) ==
  /\ isOn /\ ~isSecondMode
  /\ IF op = "^" THEN handlePowerButton ELSE handleOperationButton(op)

\* C32: a binary operator (+, times, divide, ^) entered directly after another
\* operator replaces it, an operator other than minus entered on an empty
\* entry is ignored, and so a digit or operator input leaves no two adjacent
\* binary operators in entryLine and no binary operator at its start.
C32_OperatorsWellPlaced ==
  /\ [][\A op \in BinaryOperators :
          (OperatorEntered(op) /\ entryLine # <<>> /\ isOperator(entryLine[Len(entryLine)]))
            => entryLine' = SubSeq(entryLine, 1, Len(entryLine) - 1) \o <<op>>]_vars
  /\ [][\A op \in BinaryOperators :
          (OperatorEntered(op) /\ entryLine = <<>>) => entryLine' = <<>>]_vars
  /\ [][((DigitEntered \/ \E op \in BinaryOperators \cup {Minus} : OperatorEntered(op))
           /\ WellPlaced(entryLine))
          => WellPlaced(entryLine')]_vars

\* no numeral of entry (a run of digits and points) holds two decimal points
SingleDecimal(entry) ==
  \A i, j \in 1..Len(entry) :
    (i < j /\ entry[i] = "." /\ entry[j] = ".")
      => \E k \in (i + 1)..(j - 1) : ~IsDigit(entry[k]) /\ entry[k] # "."

\* the numeral that ends entry holds a decimal point
PointInLastNumeral(entry) ==
  \E i \in 1..Len(entry) :
    /\ entry[i] = "."
    /\ \A k \in i..Len(entry) : IsDigit(entry[k]) \/ entry[k] = "."

\* the decimal point or the delete button is pressed, 2nd mode off
DecimalEntered == isOn /\ ~isSecondMode /\ handleDecimalButton
DeleteEntered == isOn /\ ~isSecondMode /\ handleDeleteButton

\* C33: a decimal point entered while the current numeral has one is rejected
\* with an error and leaves entryLine unchanged; entered on an empty entry or
\* directly after an operator it is inserted as "0."; and digit, decimal
\* point, operator and delete inputs leave at most one decimal point in every
\* numeral of entryLine.
C33_OneDecimalPoint ==
  /\ [][(DecimalEntered /\ PointInLastNumeral(entryLine))
          => entryLine' = entryLine /\ ErrorShown]_vars
  /\ [][(DecimalEntered
           /\ (entryLine = <<>> \/ isOperator(entryLine[Len(entryLine)])))
          => entryLine' = entryLine \o <<"0", ".">>]_vars
  /\ [][((\/ DigitEntered
          \/ DecimalEntered
          \/ DeleteEntered
          \/ \E op \in BinaryOperators \cup {Minus} : OperatorEntered(op))
           /\ SingleDecimal(entryLine))
          => SingleDecimal(entryLine')]_vars

\* a second decimal point was refused on the entry 2.5
C33_Witness ==
  /\ entryLine = <<"2", ".", "5">>
  /\ errorDisplay.textContent = "Decimal already exists"
  /\ ~errorDisplay.hidden
  /\ keys = 1

\* the characters 0-9 + - * / ( ) . , e
EvaluatorCharacters ==
  {"0", "1", "2", "3", "4", "5", "6", "7", "8", "9",
   "+", "-", "*", "/", "(", ")", ".", ",", "e"}

ForEvaluator(c) == c \in EvaluatorCharacters

ErrorOnDisplay ==
  /\ timers # <<>> /\ timers[Len(timers)] = "error"
  /\ ~errorDisplay.hidden

\* C35: an error on display is hidden by its own callback alone: a callback
\* that runs while callbacks set earlier are still held (they run first, so
\* it is one of them) leaves the error display and its styling as they are.
C35_ErrorKeptVisible ==
  [][((errorTimeout \/ messageTimeout) /\ ErrorOnDisplay /\ Len(timers) > 1)
       => errorDisplay' = errorDisplay]_vars

\* entry is a digit string of two digits or more that starts with a zero
LeadingZeros(entry) ==
  /\ Len(entry) > 1 /\ Head(entry) = "0"
  /\ \A i \in 1..Len(entry) : IsDigit(entry[i])

\* C36: calculate on an entry that is a digit string with leading zeros (010)
\* records its base-10 value (10) and shows no error.
C36_LeadingZerosDecimal ==
  [][(handleEnterButton /\ isOn /\ ~isSecondMode /\ LeadingZeros(entryLine))
       => /\ lastAnswer' = Whole(Decimal(entryLine, 0))
          /\ resultLine' = formatNumber(Whole(Decimal(entryLine, 0)), displayMode, fixDecimals)
          /\ ~ErrorShown]_vars

\* a digit string without leading zeros
PlainNumber(ds) ==
  /\ ds # <<>> /\ \A i \in 1..Len(ds) : IsDigit(ds[i])
  /\ Len(ds) = 1 \/ Head(ds) # "0"

\* entry is left, the two characters first and second, and right
SplitBy(entry, i, first, second) ==
  /\ entry[i] = first /\ entry[i + 1] = second
  /\ PlainNumber(SubSeq(entry, 1, i - 1))
  /\ PlainNumber(SubSeq(entry, i + 2, Len(entry)))

\* the values that the entry has when a minus after an operator or at the
\* start negates the operand after it: a + b for a minus minus b, -(a times b)
\* for a times minus b, a for minus minus a
NegationValues(entry) ==
  { Add(Whole(Decimal(SubSeq(entry, 1, i - 1), 0)),
        Whole(Decimal(SubSeq(entry, i + 2, Len(entry)), 0))) :
      i \in { k \in 2..(Len(entry) - 2) : SplitBy(entry, k, Minus, Minus) } }
  \cup
  { Neg(Mul(Whole(Decimal(SubSeq(entry, 1, i - 1), 0)),
            Whole(Decimal(SubSeq(entry, i + 2, Len(entry)), 0)))) :
      i \in { k \in 2..(Len(entry) - 2) : SplitBy(entry, k, Times, Minus) } }
  \cup
  { Whole(Decimal(SubSeq(entry, 3, Len(entry)), 0)) :
      i \in { k \in {1} : /\ Len(entry) > 2 /\ entry[1] = Minus /\ entry[2] = Minus
                          /\ PlainNumber(SubSeq(entry, 3, Len(entry))) } }

\* C37: calculate on the entry a minus minus b records a + b, on a times
\* minus b it records -(a times b), on minus minus a it records a, and it
\* shows no error on any of them.
C37_UnaryMinus ==
  [][(handleEnterButton /\ isOn /\ ~isSecondMode)
       => \A v \in NegationValues(entryLine) :
            /\ lastAnswer' = v
            /\ resultLine' = formatNumber(v, displayMode, fixDecimals)
            /\ ~ErrorShown]_vars

\* the entry is the one insertAnswer leaves of an empty entry, for a finite
\* last answer
AnswerInserted ==
  /\ isFinite(lastAnswer) /\ HasText(lastAnswer)
  /\ entryLine = NumberToString(lastAnswer)

\* C38: calculate on the entry that insertAnswer made of an empty entry, for a
\* finite lastAnswer, shows no error, records a result and leaves lastAnswer
\* equal to its previous value.
C38_AnswerRoundTrip ==
  [][(handleEnterButton /\ isOn /\ ~isSecondMode /\ AnswerInserted)
       => /\ ~ErrorShown
          /\ ResultRecorded
          /\ lastAnswer' = lastAnswer]_vars

=============================================================================
